---- MODULE Spec2Model ----
(***************************************************************************)
(* A model of the factory supply-chain analyzer: the flow graph built from *)
(* the parsed factory, flow propagation over the SCC condensation, the     *)
(* iterative graph algorithms (Tarjan SCC, Kahn topological order,         *)
(* Lengauer-Tarjan dominators) and the issue rules that read the flows.    *)
(*                                                                         *)
(* Machines are numbered 1..Len(nodes) in the insertion order of           *)
(* factory.buildings; conduits are numbered 1..Len(belts) in the insertion *)
(* order of factory.belts.  Rates are fixed-point numbers: an integer r    *)
(* stands for r / SCALE items per minute, a quotient rounded to nearest.   *)
(***************************************************************************)
EXTENDS Integers, Sequences, FiniteSets, TLC

VARIABLES
    nodes,      \* factory.buildings as FlowNode inputs, in insertion order
    belts,      \* factory.belts (directed conduits), in insertion order
    pc,         \* "build" while the factory is assembled, "done" after an analysis
    setOrd,     \* the order in which this process iterates a set of node ids
    root,       \* the root handed to lengauer_tarjan_dominators
    out,        \* the results of the last analysis
    conns,      \* factory.connections: pairs of connected components, in insertion order
    loop,       \* the running direction loop of parse_save: its sweep count and change flag,
                \* and the output_belts and input_belts of the buildings
    snapshot,   \* the module globals of app.py, each tagged with the load that wrote it
    tickets,    \* the rows of the tickets table, in order of their ids
    uploads     \* the POSTs to /upload so far: the issue hashes of each and where it failed

\* the state of parse_save and the state of the web application
parser == <<conns, loop>>
app == <<snapshot, tickets, uploads>>

vars == <<nodes, belts, pc, setOrd, root, out, parser, app>>

(***************************************************************************)
(* Bounds of the model.                                                    *)
(***************************************************************************)
MaxNodes == 3
MaxBelts == 3
MaxGraphNodes == 4
MaxGraphEdges == 3
SCALE == 1000

\* no direction loop is running; nothing was uploaded yet
NoLoop ==
    [iterations |-> 0, changed |-> FALSE, pipe_end_connections |-> <<>>,
     belt_iters |-> 0, belt_changed |-> FALSE, belt_adj |-> <<>>,
     output_belts |-> <<>>, input_belts |-> <<>>]
NoSnapshot == [g \in {"factory", "issues", "graph_stats", "flow", "districts", "blocks"} |-> 0]

(***************************************************************************)
(* Generic helpers.                                                        *)
(***************************************************************************)
Min(a, b) == IF a <= b THEN a ELSE b
Max(a, b) == IF a >= b THEN a ELSE b
Abs(a) == IF a < 0 THEN 0 - a ELSE a
Range(s) == {s[i] : i \in DOMAIN s}
Get(f, k, d) == IF k \in DOMAIN f THEN f[k] ELSE d
Put(f, k, v) == [x \in (DOMAIN f) \cup {k} |-> IF x = k THEN v ELSE f[x]]
Last(s) == s[Len(s)]
Front(s) == SubSeq(s, 1, Len(s) - 1)
RECURSIVE SumSeq(_)
SumSeq(s) == IF s = <<>> THEN 0 ELSE Head(s) + SumSeq(Tail(s))
\* Rates are Python floats; the model keeps them in units of 1/SCALE items per
\* minute and rounds every quotient to the nearest unit.
\* a / n rounded (0 <= a, 0 < n)
Div(a, n) == (2 * a + n) \div (2 * n)
\* a * b / c rounded, in parts that fit 32 bits (0 <= a, 0 <= b, 0 < c)
MulDiv(a, b, c) ==
    LET r == a % c
        bh == b \div 1000
        bl == b % 1000
        q1 == (r * bh) \div c
        rem1 == (r * bh) % c
    IN  (a \div c) * b + q1 * 1000 + (rem1 * 1000 + r * bl + (c \div 2)) \div c

\* the members of S listed in the order of the sequence ord
Listed(ord, S) == SelectSeq(ord, LAMBDA x : x \in S)

(***************************************************************************)
(* Adjacency maps.  A Python dict keeps its keys in insertion order, so an *)
(* adjacency is the list of its keys together with the list of each key.   *)
(***************************************************************************)
VIRTUAL_SOURCE == 0
VIRTUAL_SINK == 0 - 1
None == 0 - 2

EmptyAdj == [keys |-> <<>>, at |-> <<>>]
AdjGet(adj, v) == Get(adj.at, v, <<>>)
AdjAppend(adj, u, v) ==
    [keys |-> IF u \in DOMAIN adj.at THEN adj.keys ELSE Append(adj.keys, u),
     at   |-> Put(adj.at, u, Append(AdjGet(adj, u), v))]
AdjSet(adj, u, list) ==
    [keys |-> IF u \in DOMAIN adj.at THEN adj.keys ELSE Append(adj.keys, u),
     at   |-> Put(adj.at, u, list)]
AdjNodes(adj) == (DOMAIN adj.at) \cup UNION {Range(adj.at[k]) : k \in DOMAIN adj.at}

\* adj[edge.src].append(edge.dst) for the edges whose endpoints are machines
RECURSIVE ForwardAdj(_, _)
ForwardAdj(es, n) ==
    IF es = <<>> THEN EmptyAdj
    ELSE LET e == Last(es)
             a == ForwardAdj(Front(es), n)
         IN  IF e.src \in 1..n /\ e.dst \in 1..n THEN AdjAppend(a, e.src, e.dst) ELSE a

\* rev_adj[edge.dst].append(edge.src)
RECURSIVE ReverseAdj(_, _)
ReverseAdj(es, n) ==
    IF es = <<>> THEN EmptyAdj
    ELSE LET e == Last(es)
             a == ReverseAdj(Front(es), n)
         IN  IF e.src \in 1..n /\ e.dst \in 1..n THEN AdjAppend(a, e.dst, e.src) ELSE a

(***************************************************************************)
(* tarjan_scc: iterative Tarjan with an explicit call stack.  A frame is   *)
(* the node and the position of its neighbour iterator.                    *)
(***************************************************************************)
TarjanInit ==
    [counter |-> 0, stack |-> <<>>, on_stack |-> {}, index |-> <<>>,
     lowlink |-> <<>>, result |-> <<>>, calls |-> <<>>, advanced |-> FALSE]

\* index[w] = lowlink[w] = index_counter; push w on both stacks
TarjanVisit(t, w) ==
    [t EXCEPT !.index = Put(@, w, t.counter), !.lowlink = Put(@, w, t.counter),
              !.counter = @ + 1, !.stack = Append(@, w), !.on_stack = @ \cup {w},
              !.calls = Append(@, [v |-> w, pos |-> 1])]

\* tarjan_scc that forgets the back edges
TarjanBackEdgeIgnored(t, v, w) == t

\* lowlink[v] = min(lowlink[v], index[w]) for a neighbour w that is on the stack
TarjanBackEdge(t, v, w) == [t EXCEPT !.lowlink[v] = Min(@, t.index[w])]

\* `for w in neighbors` on the top frame, resumed where the iterator stands
RECURSIVE TarjanScan(_, _)
TarjanScan(adj, t) ==
    LET top == Len(t.calls)
        v == t.calls[top].v
        pos == t.calls[top].pos
        nb == AdjGet(adj, v)
    IN  IF pos > Len(nb) THEN [t EXCEPT !.advanced = FALSE]
        ELSE LET w == nb[pos]
                 t1 == [t EXCEPT !.calls[top].pos = pos + 1]
             IN  IF w \notin DOMAIN t.index
                 THEN [TarjanVisit(t1, w) EXCEPT !.advanced = TRUE]
                 ELSE IF w \in t.on_stack
                      THEN TarjanScan(adj, TarjanBackEdge(t1, v, w))
                      ELSE TarjanScan(adj, t1)

\* pop the component stack until (and including) v
RECURSIVE TarjanUnwind(_, _, _)
TarjanUnwind(t, v, scc) ==
    LET w == Last(t.stack)
        t1 == [t EXCEPT !.stack = Front(@), !.on_stack = @ \ {w}]
    IN  IF w = v THEN [t1 EXCEPT !.result = Append(@, scc \cup {w})]
        ELSE TarjanUnwind(t1, v, scc \cup {w})

\* the frame of v is finished: pop it, update the parent's lowlink, emit an SCC
TarjanPop(t) ==
    LET v == Last(t.calls).v
        rest == Front(t.calls)
        low == IF rest # <<>>
               THEN [t.lowlink EXCEPT ![Last(rest).v] = Min(@, t.lowlink[v])]
               ELSE t.lowlink
        t1 == [t EXCEPT !.calls = rest, !.lowlink = low]
    IN  IF low[v] = t.index[v] THEN TarjanUnwind(t1, v, {}) ELSE t1

RECURSIVE TarjanLoop(_, _)
TarjanLoop(adj, t) ==
    IF t.calls = <<>> THEN t
    ELSE LET s == TarjanScan(adj, t)
         IN  TarjanLoop(adj, IF s.advanced THEN s ELSE TarjanPop(s))

RECURSIVE TarjanFrom(_, _, _)
TarjanFrom(adj, starts, t) ==
    IF starts = <<>> THEN t
    ELSE IF Head(starts) \in DOMAIN t.index THEN TarjanFrom(adj, Tail(starts), t)
    ELSE TarjanFrom(adj, Tail(starts), TarjanLoop(adj, TarjanVisit(t, Head(starts))))

\* ord lists every node id; all_nodes is visited in that order
tarjan_scc(adj, ord) == TarjanFrom(adj, Listed(ord, AdjNodes(adj)), TarjanInit).result

(***************************************************************************)
(* condensation_topo_order: SCC indices (positions in sccs) in Kahn order. *)
(***************************************************************************)
\* scc_index: the last SCC in the list that holds nid
SccIndexOf(sccs, nid) ==
    IF \E i \in DOMAIN sccs : nid \in sccs[i]
    THEN CHOOSE i \in DOMAIN sccs : nid \in sccs[i] /\ \A j \in DOMAIN sccs : nid \in sccs[j] => j <= i
    ELSE None

\* the (src, dst) pairs in the order of `for src, targets in adj.items(): for dst in targets`
RECURSIVE AdjPairsFrom(_, _)
AdjPairsFrom(adj, ks) ==
    IF ks = <<>> THEN <<>>
    ELSE [i \in 1..Len(adj.at[Head(ks)]) |-> <<Head(ks), adj.at[Head(ks)][i]>>]
         \o AdjPairsFrom(adj, Tail(ks))
AdjPairs(adj) == AdjPairsFrom(adj, adj.keys)

\* the condensation that counts every parallel edge in the in-degree
CondenseEdgeCounted(c, si, sj) ==
    IF si = None \/ sj = None \/ si = sj THEN c
    ELSE [c EXCEPT !.scc_adj[si] = @ \cup {sj}, !.in_degree[sj] = @ + 1]

\* one edge of the condensation: counted once per pair of distinct SCCs
CondenseEdge(c, si, sj) ==
    IF si = None \/ sj = None \/ si = sj \/ sj \in c.scc_adj[si] THEN c
    ELSE [c EXCEPT !.scc_adj[si] = @ \cup {sj}, !.in_degree[sj] = @ + 1]

RECURSIVE Condense(_, _, _)
Condense(sccs, pairs, c) ==
    IF pairs = <<>> THEN c
    ELSE Condense(sccs, Tail(pairs),
                  CondenseEdge(c, SccIndexOf(sccs, Head(pairs)[1]), SccIndexOf(sccs, Head(pairs)[2])))

\* a set of small integers is iterated in increasing order
RECURSIVE Ascending(_)
Ascending(S) ==
    IF S = {} THEN <<>>
    ELSE LET m == CHOOSE x \in S : \A y \in S : x <= y IN <<m>> \o Ascending(S \ {m})

\* for v in scc_adj[u]: in_degree[v] -= 1; enqueue v when it reaches 0
RECURSIVE KahnRelax(_, _)
KahnRelax(k, vs) ==
    IF vs = <<>> THEN k
    ELSE LET v == Head(vs)
             d == k.in_degree[v] - 1
             k1 == [k EXCEPT !.in_degree[v] = d,
                             !.queue = IF d = 0 THEN Append(@, v) ELSE @]
         IN  KahnRelax(k1, Tail(vs))

RECURSIVE KahnLoop(_)
KahnLoop(k) ==
    IF k.queue = <<>> THEN k
    ELSE LET u == Head(k.queue)
             k1 == [k EXCEPT !.queue = Tail(@), !.topo = Append(@, u)]
         IN  KahnLoop(KahnRelax(k1, Ascending(k.scc_adj[u])))

condensation_topo_order(sccs, adj) ==
    LET c == Condense(sccs, AdjPairs(adj),
                      [scc_adj |-> [i \in DOMAIN sccs |-> {}], in_degree |-> [i \in DOMAIN sccs |-> 0]])
        k0 == [scc_adj |-> c.scc_adj, in_degree |-> c.in_degree,
               queue |-> Listed(Ascending(DOMAIN sccs), {i \in DOMAIN sccs : c.in_degree[i] = 0}),
               topo |-> <<>>]
    IN  KahnLoop(k0).topo

(***************************************************************************)
(* lengauer_tarjan_dominators (the simple variant with path compression).  *)
(* dfnum counts from 0 as in the code, so order[dfnum[v] + 1] = v.         *)
(***************************************************************************)
DfsInit(r) ==
    [order |-> <<r>>, dfnum |-> Put(<<>>, r, 0), parent |-> <<>>,
     stack |-> <<[v |-> r, pos |-> 1]>>]

\* `for w in children` on the top frame; the frame is popped when it is exhausted
RECURSIVE DfsScan(_, _)
DfsScan(adj, d) ==
    LET top == Len(d.stack)
        v == d.stack[top].v
        pos == d.stack[top].pos
        nb == AdjGet(adj, v)
    IN  IF pos > Len(nb) THEN [d EXCEPT !.stack = Front(@)]
        ELSE LET w == nb[pos]
                 d1 == [d EXCEPT !.stack[top].pos = pos + 1]
             IN  IF w \notin DOMAIN d.dfnum
                 THEN [d1 EXCEPT !.dfnum = Put(@, w, Len(d.order)),
                                 !.order = Append(@, w),
                                 !.parent = Put(@, w, v),
                                 !.stack = Append(@, [v |-> w, pos |-> 1])]
                 ELSE DfsScan(adj, d1)

RECURSIVE DfsLoop(_, _)
DfsLoop(adj, d) == IF d.stack = <<>> THEN d ELSE DfsLoop(adj, DfsScan(adj, d))

\* pred[v].append(u) for every edge u -> v between numbered nodes
RECURSIVE BuildPred(_, _, _)
BuildPred(pairs, dfnum, pred) ==
    IF pairs = <<>> THEN pred
    ELSE LET u == Head(pairs)[1]
             v == Head(pairs)[2]
         IN  BuildPred(Tail(pairs), dfnum,
                       IF u \in DOMAIN dfnum /\ v \in DOMAIN dfnum
                       THEN Put(pred, v, Append(Get(pred, v, <<>>), u))
                       ELSE pred)

\* _eval, first loop: the nodes from v up to the child of the forest root
RECURSIVE EvalPath(_, _)
EvalPath(ancestor, u) ==
    IF ancestor[u] = None THEN <<>> ELSE <<u>> \o EvalPath(ancestor, ancestor[u])

RECURSIVE EvalRoot(_, _)
EvalRoot(ancestor, u) == IF ancestor[u] = None THEN u ELSE EvalRoot(ancestor, ancestor[u])

\* _eval, second loop, one node of the path: update best and compress
EvalCompressNode(L, node, u) ==
    LET par_node == L.ancestor[node]
    IN  IF par_node # None /\ L.ancestor[par_node] # None
        THEN [L EXCEPT !.best[node] = IF L.semi[L.best[par_node]] < L.semi[L.best[node]]
                                      THEN L.best[par_node] ELSE @,
                       !.ancestor[node] = u]
        ELSE L

RECURSIVE EvalCompress(_, _, _, _)
EvalCompress(L, path, i, u) ==
    IF i = 0 THEN L ELSE EvalCompress(EvalCompressNode(L, path[i], u), path, i - 1, u)

\* _eval(v): the state after path compression; the result is best[v]
Eval(L, v) ==
    LET path == EvalPath(L.ancestor, v)
    IN  EvalCompress(L, path, Len(path), EvalRoot(L.ancestor, v))

\* the semi-dominator loop that looks at tree ancestors only
SemiCandidateAncestorsOnly(L, dfnum, w, v) ==
    IF dfnum[v] <= dfnum[w] THEN [L EXCEPT !.semi[w] = Min(@, dfnum[v])] ELSE L

\* one predecessor v of w in the semi-dominator loop
SemiCandidate(L, dfnum, w, v) ==
    IF dfnum[v] <= dfnum[w]
    THEN [L EXCEPT !.semi[w] = Min(@, dfnum[v])]
    ELSE LET L1 == Eval(L, v)
         IN  [L1 EXCEPT !.semi[w] = Min(@, L1.semi[L1.best[v]])]

RECURSIVE SemiLoop(_, _, _, _)
SemiLoop(L, dfnum, w, ps) ==
    IF ps = <<>> THEN L ELSE SemiLoop(SemiCandidate(L, dfnum, w, Head(ps)), dfnum, w, Tail(ps))

\* idom[v] = p if semi[u] == semi[v] else u, for one v of bucket[p]
BucketNode(L, p, v) ==
    LET L1 == Eval(L, v)
        u == L1.best[v]
    IN  [L1 EXCEPT !.idom = Put(@, v, IF L1.semi[u] = L1.semi[v] THEN p ELSE u)]

RECURSIVE BucketLoop(_, _, _)
BucketLoop(L, p, vs) ==
    IF vs = <<>> THEN L ELSE BucketLoop(BucketNode(L, p, Head(vs)), p, Tail(vs))

\* the body of `for i in range(n - 1, 0, -1)` for w = order[i]
LTVertex(L, d, pred, w) ==
    LET p == d.parent[w]
        L1 == SemiLoop(L, d.dfnum, w, Get(pred, w, <<>>))
        semi_node == d.order[L1.semi[w] + 1]
        L2 == [L1 EXCEPT !.bucket = Put(@, semi_node, Append(Get(@, semi_node, <<>>), w))]
        L3 == [L2 EXCEPT !.ancestor[w] = p]
        L4 == BucketLoop(L3, p, Get(L3.bucket, p, <<>>))
    IN  [L4 EXCEPT !.bucket = Put(@, p, <<>>)]

RECURSIVE LTLoop(_, _, _, _)
LTLoop(L, d, pred, i) ==
    IF i < 2 THEN L ELSE LTLoop(LTVertex(L, d, pred, d.order[i]), d, pred, i - 1)

\* step 3 for w = order[i]
LTAdjust(L, d, r, w) ==
    IF w \in DOMAIN L.idom /\ L.idom[w] # d.order[L.semi[w] + 1]
    THEN [L EXCEPT !.idom[w] = Get(L.idom, L.idom[w], r)]
    ELSE L

RECURSIVE LTAdjustLoop(_, _, _, _)
LTAdjustLoop(L, d, r, i) ==
    IF i > Len(d.order) THEN L ELSE LTAdjustLoop(LTAdjust(L, d, r, d.order[i]), d, r, i + 1)

lengauer_tarjan_dominators(adj, r) ==
    LET d == DfsLoop(adj, DfsInit(r))
        n == Len(d.order)
        V == Range(d.order)
        pred == BuildPred(AdjPairs(adj), d.dfnum, <<>>)
        L0 == [semi |-> [v \in V |-> d.dfnum[v]], idom |-> <<>>,
               ancestor |-> [v \in V |-> None], best |-> [v \in V |-> v], bucket |-> <<>>]
    IN  IF n <= 1 THEN <<>>
        ELSE LTAdjustLoop(LTLoop(L0, d, pred, n), d, r, 2).idom

(***************************************************************************)
(* build_dominator_tree / build_reverse_dominator_tree.                    *)
(***************************************************************************)
\* the ids of nodes.items() in insertion order
NodeIds(n) == [i \in 1..n |-> i]

\* the virtual source feeds every miner, then every other node without incoming edge
SourceTargets(ns, es) ==
    LET n == Len(ns)
        has_incoming == {es[k].dst : k \in DOMAIN es} \cap (1..n)
        miners == SelectSeq(NodeIds(n), LAMBDA i : ns[i].category = "miner")
    IN  miners \o SelectSeq(NodeIds(n), LAMBDA i : i \notin has_incoming /\ i \notin Range(miners))

\* a variant that takes the source of a node's first incoming edge for its dominator
build_dominator_tree_first_pred(ns, es) ==
    [i \in DOMAIN ns |->
        IF \E k \in DOMAIN es : es[k].dst = i
        THEN es[CHOOSE k \in DOMAIN es :
                    es[k].dst = i /\ \A j \in DOMAIN es : es[j].dst = i => k <= j].src
        ELSE VIRTUAL_SOURCE]

build_dominator_tree(ns, es) ==
    lengauer_tarjan_dominators(
        AdjSet(ForwardAdj(es, Len(ns)), VIRTUAL_SOURCE, SourceTargets(ns, es)),
        VIRTUAL_SOURCE)

\* the virtual sink fed by the nodes without outgoing edge only
SinkTargetsWithoutStorages(ns, es) ==
    LET n == Len(ns)
        has_outgoing == {es[k].src : k \in DOMAIN es} \cap (1..n)
    IN  SelectSeq(NodeIds(n), LAMBDA i : i \notin has_outgoing)

\* the virtual sink is fed by every node without outgoing edge and every storage
SinkTargets(ns, es) ==
    LET n == Len(ns)
        has_outgoing == {es[k].src : k \in DOMAIN es} \cap (1..n)
    IN  SelectSeq(NodeIds(n), LAMBDA i : i \notin has_outgoing \/ ns[i].category = "storage")

build_reverse_dominator_tree(ns, es) ==
    lengauer_tarjan_dominators(
        AdjSet(ReverseAdj(es, Len(ns)), VIRTUAL_SINK, SinkTargets(ns, es)),
        VIRTUAL_SINK)

(***************************************************************************)
(* The flow graph.  A building of the factory is a record                  *)
(*   [category, friendly_name, recipe, recipe_name, clock_speed,           *)
(*    is_producing]                                                        *)
(* where recipe is [matched, input, output] (whether recipe_data was       *)
(* found, and its items per minute at 100 % clock summed over the items),  *)
(* recipe_name tells whether the save names a recipe, and clock_speed is   *)
(* in percent.  A belt is                                                  *)
(*   [id, src_building, dst_building, max_rate]                            *)
(* with None for an endpoint that direction resolution left unset.         *)
(***************************************************************************)
MINER_BASE_RATES(name) ==
    CASE name = "Miner Mk.1" -> 60
      [] name = "Miner Mk.2" -> 120
      [] name = "Miner Mk.3" -> 240
      [] name = "Oil Extractor" -> 120
      [] name = "Water Extractor" -> 120
      [] name = "Resource Well Extractor" -> 60
      [] OTHER -> 0

\* the building names that contain "Splitter", "Merger", "Pipe Junction", "Pipeline Pump"
SplitterNames == {"Splitter", "Smart Splitter", "Programmable Splitter"}
MergerNames == {"Merger"}
JunctionNames == {"Pipe Junction"}
PumpNames == {"Pipeline Pump", "Pipeline Pump Mk.2"}

\* rate * clock_speed, in 1/SCALE items per minute
AtClock(rate, clock) == (rate * SCALE * clock) \div 100

\* the FlowNode of one building, before any edge is attached
BuildNode(bld) ==
    [category |-> bld.category,
     building_name |-> bld.friendly_name,
     recipe_data |-> bld.recipe.matched,
     clock_speed |-> bld.clock_speed,
     is_producing |-> bld.is_producing,
     recipe_name |-> bld.recipe_name,
     has_inputs |-> bld.recipe.matched /\ bld.recipe.input > 0,
     has_outputs |-> (bld.recipe.matched /\ bld.recipe.output > 0)
                     \/ (~bld.recipe.matched /\ bld.category = "miner"
                         /\ MINER_BASE_RATES(bld.friendly_name) > 0),
     expected_inputs |-> IF bld.recipe.matched THEN AtClock(bld.recipe.input, bld.clock_speed) ELSE 0,
     expected_outputs |->
        IF bld.recipe.matched THEN AtClock(bld.recipe.output, bld.clock_speed)
        ELSE IF bld.category = "miner" /\ MINER_BASE_RATES(bld.friendly_name) > 0
             THEN AtClock(MINER_BASE_RATES(bld.friendly_name), bld.clock_speed)
             ELSE 0,
     in_edges |-> <<>>,
     out_edges |-> <<>>]

\* a variant that also lists the belt among its destination's outgoing edges
AttachBeltBothLists(G, belt_id, belt) ==
    IF belt.src_building = None \/ belt.dst_building = None THEN G
    ELSE [nodes |-> [G.nodes EXCEPT ![belt.src_building].out_edges = Append(@, belt_id),
                                    ![belt.dst_building].in_edges = Append(@, belt_id),
                                    ![belt.dst_building].out_edges = Append(@, belt_id)],
          edges |-> Append(G.edges, [belt_id |-> belt_id, src |-> belt.src_building,
                                     dst |-> belt.dst_building, max_rate |-> belt.max_rate])]

\* one belt of factory.belts.items(): an edge when both ends are set
AttachBelt(G, belt_id, belt) ==
    IF belt.src_building = None \/ belt.dst_building = None THEN G
    ELSE LET n == Len(G.nodes)
             ns1 == IF belt.src_building \in 1..n
                    THEN [G.nodes EXCEPT ![belt.src_building].out_edges = Append(@, belt_id)]
                    ELSE G.nodes
             ns2 == IF belt.dst_building \in 1..n
                    THEN [ns1 EXCEPT ![belt.dst_building].in_edges = Append(@, belt_id)]
                    ELSE ns1
         IN  [nodes |-> ns2,
              edges |-> Append(G.edges, [belt_id |-> belt_id, src |-> belt.src_building,
                                         dst |-> belt.dst_building, max_rate |-> belt.max_rate])]

RECURSIVE AttachBelts(_, _, _)
AttachBelts(G, bs, i) ==
    IF i > Len(bs) THEN G ELSE AttachBelts(AttachBelt(G, bs[i].id, bs[i]), bs, i + 1)

\* a variant that makes an edge of every belt: a missing end becomes the first building
build_flow_graph_completed(buildings, bs) ==
    AttachBelts([nodes |-> [i \in DOMAIN buildings |-> BuildNode(buildings[i])], edges |-> <<>>],
                [k \in DOMAIN bs |->
                    [bs[k] EXCEPT !.src_building = IF @ = None THEN 1 ELSE @,
                                  !.dst_building = IF @ = None THEN 1 ELSE @]],
                1)

build_flow_graph(buildings, bs) ==
    AttachBelts([nodes |-> [i \in DOMAIN buildings |-> BuildNode(buildings[i])], edges |-> <<>>],
                bs, 1)

EdgeIds(G) == {G.edges[k].belt_id : k \in DOMAIN G.edges}
EdgeOf(G, eid) == G.edges[CHOOSE k \in DOMAIN G.edges : G.edges[k].belt_id = eid]

\* flow_rate = 0.0, available_input = available_output = 0.0
FlowInit(G) ==
    [flow |-> [eid \in EdgeIds(G) |-> 0],
     ain |-> [i \in DOMAIN G.nodes |-> 0],
     aout |-> [i \in DOMAIN G.nodes |-> 0],
     trace |-> <<>>,
     log |-> <<>>]

\* the outgoing edges set to the amount itself, whatever the belt carries
SetOutFlowsUncapped(G, F, nid, amount) ==
    [F EXCEPT !.flow = [eid \in DOMAIN F.flow |->
        IF eid \in Range(G.nodes[nid].out_edges) THEN amount ELSE F.flow[eid]]]

\* for eid in node.out_edges: edges[eid].flow_rate = min(amount, edges[eid].max_rate)
SetOutFlows(G, F, nid, amount) ==
    [F EXCEPT !.flow = [eid \in DOMAIN F.flow |->
        IF eid \in Range(G.nodes[nid].out_edges) THEN Min(amount, EdgeOf(G, eid).max_rate * SCALE)
        ELSE F.flow[eid]]]

\* sum(edges[eid].flow_rate for eid in node.in_edges)
TotalIn(G, F, nid) ==
    SumSeq([k \in DOMAIN G.nodes[nid].in_edges |-> F.flow[G.nodes[nid].in_edges[k]]])

\* the recipe output scaled by the input without the cap at the recipe rate
RecipeOutputUnclipped(node, total_in) ==
    IF node.expected_inputs > 0
    THEN MulDiv(node.expected_outputs, total_in, node.expected_inputs)
    ELSE node.expected_outputs

\* expected_output * min(total_in / expected_input, 1.0), and expected_output
\* itself for a recipe without input
RecipeOutput(node, total_in) ==
    IF node.expected_inputs > 0
    THEN MulDiv(node.expected_outputs, Min(total_in, node.expected_inputs), node.expected_inputs)
    ELSE node.expected_outputs

\* a variant in which every branch of a logistics node gets the whole input
LogisticsShareUnsplit(node, total_in) == total_in

\* the redistribution of a logistics node over its outgoing edges
LogisticsShare(node, total_in) ==
    IF node.building_name \in SplitterNames THEN Div(total_in, Len(node.out_edges))
    ELSE IF node.building_name \in MergerNames THEN total_in
    ELSE IF node.building_name \in JunctionNames THEN Div(total_in, Max(Len(node.out_edges), 1))
    ELSE IF node.building_name \in PumpNames THEN total_in
    ELSE Div(total_in, Max(Len(node.out_edges), 1))

_calculate_node_flow(G, F, nid) ==
    LET node == G.nodes[nid]
        \* the branch of the node's category, F1 being F with available_input set
        Redistribute(total_in, F1) ==
            IF node.category = "miner" THEN F1
            ELSE IF node.category = "logistics"
            THEN LET F2 == [F1 EXCEPT !.aout[nid] = total_in]
                 IN  IF node.out_edges # <<>>
                     THEN SetOutFlows(G, F2, nid, LogisticsShare(node, total_in))
                     ELSE F2
            ELSE IF node.category \in {"production", "generator"} /\ node.recipe_data
            THEN LET actual_output == RecipeOutput(node, total_in)
                     F2 == [F1 EXCEPT !.aout[nid] = actual_output]
                 IN  IF node.out_edges # <<>>
                     THEN SetOutFlows(G, F2, nid, Div(actual_output, Len(node.out_edges)))
                     ELSE F2
            ELSE IF node.category \in {"storage", "transport"}
            THEN LET F2 == [F1 EXCEPT !.aout[nid] = total_in]
                 IN  IF node.out_edges # <<>>
                     THEN SetOutFlows(G, F2, nid, Div(total_in, Max(Len(node.out_edges), 1)))
                     ELSE F2
            ELSE F1
        Receive(total_in) == Redistribute(total_in, [F EXCEPT !.ain[nid] = total_in])
    IN  Receive(TotalIn(G, F, nid))

(***************************************************************************)
(* _fixed_point_scc: damped sweeps over the members of a cyclic SCC.       *)
(***************************************************************************)
MAX_ITER == 100
EPSILON == SCALE \div 100

\* damping * new_output + (1.0 - damping) * old_output with damping = 0.7
Damped(new_output, old_output) == Div(7 * new_output + 3 * old_output, 10)

\* the body of `for nid in scc`: S is [F, max_delta]
SweepNode(G, S, nid) ==
    LET old_output == S.F.aout[nid]
        \* F1 is the state after _calculate_node_flow
        Damp(F1, damped) ==
            [F |-> IF G.nodes[nid].out_edges # <<>>
                   THEN SetOutFlows(G, [F1 EXCEPT !.aout[nid] = damped], nid,
                                    Div(damped, Len(G.nodes[nid].out_edges)))
                   ELSE [F1 EXCEPT !.aout[nid] = damped],
             max_delta |-> Max(S.max_delta, Abs(damped - old_output))]
        Recalculated(F1) == Damp(F1, Damped(F1.aout[nid], old_output))
    IN  Recalculated(_calculate_node_flow(G, S.F, nid))

RECURSIVE Sweep(_, _, _)
Sweep(G, S, members) ==
    IF members = <<>> THEN S ELSE Sweep(G, SweepNode(G, S, Head(members)), Tail(members))

\* one pass of `for iteration in range(max_iter)`: L is [F, sweeps, converged],
\* and after the `break` of a converged sweep nothing is swept any more
FixedPointPass(G, L, members) ==
    LET Swept(S) == [F |-> S.F, sweeps |-> L.sweeps + 1, converged |-> S.max_delta < EPSILON]
    IN  IF L.converged THEN L
        ELSE Swept(Sweep(G, [F |-> L.F, max_delta |-> 0], members))

\* n passes of the loop, the first half of them and then the rest
RECURSIVE FixedPointLoop(_, _, _, _)
FixedPointLoop(G, L, members, n) ==
    LET Rest(half) ==
            IF half.converged THEN half
            ELSE FixedPointLoop(G, half, members, n - (n \div 2))
    IN  IF n = 0 THEN L
        ELSE IF n = 1 THEN FixedPointPass(G, L, members)
        ELSE Rest(FixedPointLoop(G, L, members, n \div 2))

\* the log records how the loop ended: by convergence or by max_iter
_fixed_point_scc(G, F, members, scc_idx) ==
    LET Ended(L) ==
            [L.F EXCEPT !.log = Append(@, [scc |-> scc_idx, sweeps |-> L.sweeps,
                                           converged |-> L.converged])]
    IN  Ended(FixedPointLoop(G, [F |-> F, sweeps |-> 0, converged |-> FALSE],
                             members, MAX_ITER))

(***************************************************************************)
(* propagate_flow.                                                         *)
(***************************************************************************)
\* `for nid, node in nodes.items(): if node.category == "miner"`
MinerInit(G, F, nid) ==
    LET node == G.nodes[nid]
        F1 == [F EXCEPT !.aout[nid] =
                  AtClock(MINER_BASE_RATES(node.building_name), node.clock_speed)]
    IN  IF node.category # "miner" THEN F
        ELSE IF node.out_edges # <<>>
             THEN SetOutFlows(G, F1, nid, Div(F1.aout[nid], Len(node.out_edges)))
             ELSE F1

RECURSIVE MinersInit(_, _, _)
MinersInit(G, F, i) ==
    IF i > Len(G.nodes) THEN F ELSE MinersInit(G, MinerInit(G, F, i), i + 1)

\* one SCC of the topological order; ord is the iteration order of the frozenset
ProcessScc(G, F, sccs, scc_idx, ord) ==
    LET scc == sccs[scc_idx]
        F1 == [F EXCEPT !.trace = Append(@, scc_idx)]
    IN  IF Cardinality(scc) = 1
        THEN _calculate_node_flow(G, F1, CHOOSE nid \in scc : TRUE)
        ELSE _fixed_point_scc(G, F1, Listed(ord, scc), scc_idx)

RECURSIVE ProcessSccs(_, _, _, _, _)
ProcessSccs(G, F, sccs, topo, ord) ==
    IF topo = <<>> THEN F
    ELSE ProcessSccs(G, ProcessScc(G, F, sccs, Head(topo), ord), sccs, Tail(topo), ord)

\* the result carries sccs and topo_order beside the flows
propagate_flow(G, ord) ==
    LET Result(F, sccs, topo_order) ==
            [flow |-> F.flow, ain |-> F.ain, aout |-> F.aout, trace |-> F.trace,
             log |-> F.log, sccs |-> sccs, topo_order |-> topo_order]
        InOrder(sccs, topo_order) ==
            Result(ProcessSccs(G, MinersInit(G, FlowInit(G), 1), sccs, topo_order, ord),
                   sccs, topo_order)
        OverSccs(adj, sccs) == InOrder(sccs, condensation_topo_order(sccs, adj))
        OverAdj(adj) == OverSccs(adj, tarjan_scc(adj, ord))
    IN  OverAdj(ForwardAdj(G.edges, Len(G.nodes)))

(***************************************************************************)
(* analyze_supply_chain: the issue rules, read from the propagated flows.  *)
(* An issue is [severity, category, building_id, belt_id] and what the     *)
(* root cause analysis adds to it: [root_cause, trace, dominator_id].      *)
(***************************************************************************)
Issue(sev, cat, bid, eid) ==
    [severity |-> sev, category |-> cat, building_id |-> bid, belt_id |-> eid,
     root_cause |-> "none", trace |-> <<>>, dominator_id |-> None]

\* sum(edges[eid].max_rate for eid in list), in 1/SCALE items per minute
Capacity(G, list) == SumSeq([k \in DOMAIN list |-> EdgeOf(G, list[k]).max_rate * SCALE])

\* the issues of one rule over nodes.items(): Rule(nid) is a list of issues
RECURSIVE OverNodes(_, _, _)
OverNodes(n, i, per) ==
    IF i > n THEN <<>> ELSE per[i] \o OverNodes(n, i + 1, per)

\* a variant of rule 1 that reports every belt that carries anything
BeltBottleneckWhenUsed(G, F, k) ==
    IF F.flow[G.edges[k].belt_id] > 0
    THEN <<Issue("warning", "Belt Bottleneck", G.edges[k].dst, G.edges[k].belt_id)>>
    ELSE <<>>

\* 1. Belt Bottleneck: flow_rate >= max_rate * 0.95 and flow_rate > 0
BeltBottleneck(G, F, k) ==
    LET e == G.edges[k]
        flow_rate == F.flow[e.belt_id]
        max_rate == e.max_rate * SCALE
    IN  IF flow_rate * 100 >= max_rate * 95 /\ flow_rate > 0
        THEN <<Issue(IF flow_rate > max_rate THEN "error" ELSE "warning",
                     "Belt Bottleneck", e.dst, e.belt_id)>>
        ELSE <<>>

\* 2. Input Starvation: sufficiency < 0.90 and available_input > 0
InputStarvation(G, F, nid) ==
    LET node == G.nodes[nid]
    IN  IF node.category \in {"production", "generator"} /\ node.recipe_data
           /\ node.has_inputs /\ node.expected_inputs > 0
           /\ F.ain[nid] * 10 < node.expected_inputs * 9 /\ F.ain[nid] > 0
        THEN <<Issue(IF F.ain[nid] * 2 < node.expected_inputs THEN "error" ELSE "warning",
                     "Input Starvation", nid, None)>>
        ELSE <<>>

\* 3. Clock Too High: total_expected > max_input_capacity * 1.05
ClockTooHigh(G, F, nid) ==
    LET node == G.nodes[nid]
        cap == Capacity(G, node.in_edges)
    IN  IF node.category = "production" /\ node.recipe_data
           /\ node.has_inputs /\ node.in_edges # <<>> /\ node.expected_inputs > 0
           /\ cap > 0 /\ node.expected_inputs * 100 > cap * 105
        THEN <<Issue("warning", "Clock Too High", nid, None)>>
        ELSE <<>>

\* 4. Output Backup: total_output > max_output_capacity * 1.05
OutputBackup(G, F, nid) ==
    LET node == G.nodes[nid]
        cap == Capacity(G, node.out_edges)
    IN  IF node.category = "production" /\ node.recipe_data /\ node.out_edges # <<>>
           /\ cap > 0 /\ node.expected_outputs * 100 > cap * 105
        THEN <<Issue("warning", "Output Backup", nid, None)>>
        ELSE <<>>

\* 5. Splitter Overload, then Merger Overload (the first outgoing belt only)
LogisticsOverload(G, F, nid) ==
    LET node == G.nodes[nid]
        total_out_capacity == Capacity(G, node.out_edges)
        out_capacity == EdgeOf(G, node.out_edges[1]).max_rate * SCALE
    IN  IF node.category # "logistics" \/ node.out_edges = <<>> THEN <<>>
        ELSE (IF node.building_name \in SplitterNames
                 /\ F.ain[nid] * 100 > total_out_capacity * 105 /\ F.ain[nid] > 0
              THEN <<Issue("warning", "Splitter Overload", nid, None)>> ELSE <<>>)
          \o (IF node.building_name \in MergerNames
                 /\ F.ain[nid] * 100 > out_capacity * 105 /\ F.ain[nid] > 0
              THEN <<Issue("warning", "Merger Overload", nid, None)>> ELSE <<>>)

\* 6. Dead End
DeadEnd(G, F, nid) ==
    LET node == G.nodes[nid]
    IN  IF node.category = "production" /\ node.recipe_data
           /\ node.out_edges = <<>> /\ node.has_outputs /\ node.is_producing
        THEN <<Issue("warning", "Dead End", nid, None)>>
        ELSE <<>>

\* 7. No Input
NoInput(G, F, nid) ==
    LET node == G.nodes[nid]
    IN  IF node.category = "production" /\ node.recipe_data
           /\ node.has_inputs /\ node.in_edges = <<>> /\ node.recipe_name
        THEN <<Issue("error", "No Input", nid, None)>>
        ELSE <<>>

\* 8. Idle Machine
IdleMachine(G, F, nid) ==
    LET node == G.nodes[nid]
    IN  IF node.category = "production" /\ node.recipe_name /\ ~node.is_producing
           /\ (node.in_edges # <<>> \/ node.out_edges # <<>>)
        THEN <<Issue("warning", "Idle Machine", nid, None)>>
        ELSE <<>>

\* 9. No Recipe
NoRecipe(G, F, nid) ==
    IF G.nodes[nid].category = "production" /\ ~G.nodes[nid].recipe_name
    THEN <<Issue("error", "No Recipe", nid, None)>>
    ELSE <<>>

\* 10. Idle Generator
IdleGenerator(G, F, nid) ==
    IF G.nodes[nid].category = "generator" /\ ~G.nodes[nid].is_producing
    THEN <<Issue("info", "Idle Generator", nid, None)>>
    ELSE <<>>

\* 11. Underutilized Miner: 0 < actual_consumed < max_output * 0.5
UnderutilizedMiner(G, F, nid) ==
    LET node == G.nodes[nid]
        base_rate == MINER_BASE_RATES(node.building_name)
        max_output == AtClock(base_rate, node.clock_speed)
        actual_consumed == SumSeq([k \in DOMAIN node.out_edges |-> F.flow[node.out_edges[k]]])
    IN  IF node.category = "miner" /\ node.out_edges # <<>> /\ base_rate # 0
           /\ max_output > 0 /\ actual_consumed * 2 < max_output /\ actual_consumed > 0
        THEN <<Issue("info", "Underutilized Miner", nid, None)>>
        ELSE <<>>

\* issues.sort(key=severity_order): a stable sort
SortBySeverity(issues) ==
    SelectSeq(issues, LAMBDA x : x.severity = "error")
    \o SelectSeq(issues, LAMBDA x : x.severity = "warning")
    \o SelectSeq(issues, LAMBDA x : x.severity = "info")

DetectIssues(G, F) ==
    LET n == Len(G.nodes)
    IN  SortBySeverity(
            OverNodes(Len(G.edges), 1, [k \in DOMAIN G.edges |-> BeltBottleneck(G, F, k)])
         \o OverNodes(n, 1, [i \in 1..n |-> InputStarvation(G, F, i)])
         \o OverNodes(n, 1, [i \in 1..n |-> ClockTooHigh(G, F, i)])
         \o OverNodes(n, 1, [i \in 1..n |-> OutputBackup(G, F, i)])
         \o OverNodes(n, 1, [i \in 1..n |-> LogisticsOverload(G, F, i)])
         \o OverNodes(n, 1, [i \in 1..n |-> DeadEnd(G, F, i)])
         \o OverNodes(n, 1, [i \in 1..n |-> NoInput(G, F, i)])
         \o OverNodes(n, 1, [i \in 1..n |-> IdleMachine(G, F, i)])
         \o OverNodes(n, 1, [i \in 1..n |-> NoRecipe(G, F, i)])
         \o OverNodes(n, 1, [i \in 1..n |-> IdleGenerator(G, F, i)])
         \o OverNodes(n, 1, [i \in 1..n |-> UnderutilizedMiner(G, F, i)]))

(***************************************************************************)
(* perform_root_cause_analysis: the walks up the dominator trees.  A trace *)
(* is a list of [type, id] entries, type "node" or "edge".                 *)
(***************************************************************************)
TraceNode(id) == [type |-> "node", id |-> id]
TraceEdge(id) == [type |-> "edge", id |-> id]

\* what a tracer returns; "Complex Chain" and "Downstream Bottleneck" carry no dominator_id
Verdict(root_cause, path, dom) ==
    [root_cause |-> root_cause, trace |-> path, dominator_id |-> dom]

\* the id of the first edge in from_nid's out_edges that ends in to_nid, or None
_find_edge_between(G, from_nid, to_nid) ==
    IF from_nid \notin DOMAIN G.nodes THEN None
    ELSE LET Found(hits) == IF hits = <<>> THEN None ELSE hits[1]
         IN  Found(SelectSeq(G.nodes[from_nid].out_edges,
                             LAMBDA eid : EdgeOf(G, eid).dst = to_nid))

\* the edge the starvation tracer takes for dom -> current: the direct edge,
\* else the first outgoing edge of dom "as representative"
StarvationEdge(G, dom, current) ==
    LET Chosen(direct) ==
            IF direct # None THEN direct
            ELSE IF G.nodes[dom].out_edges # <<>> THEN G.nodes[dom].out_edges[1]
            ELSE None
    IN  Chosen(_find_edge_between(G, dom, current))

\* connecting_edge.flow_rate >= connecting_edge.max_rate * 0.99
AtCapacity(G, F, eid) ==
    eid # None /\ F.flow[eid] * 100 >= EdgeOf(G, eid).max_rate * SCALE * 99

\* path.append(edge) if there is one, then path.append(node)
Extended(path, eid, dom) ==
    (IF eid # None THEN Append(path, TraceEdge(eid)) ELSE path) \o <<TraceNode(dom)>>

\* the body of `for _ in range(30)` in _dominator_trace_starvation, n rounds left
RECURSIVE StarvationWalk(_, _, _, _, _, _, _)
StarvationWalk(G, F, idom, path, visited, current, n) ==
    LET Judge(dom, dom_node, eid, path1) ==
            IF AtCapacity(G, F, eid) THEN Verdict("Belt Bottleneck (Dominator)", path1, dom)
            ELSE IF dom_node.category = "production" /\ dom_node.recipe_data
            THEN IF dom_node.expected_inputs > 0
                    /\ F.ain[dom] * 100 < dom_node.expected_inputs * 95
                 THEN StarvationWalk(G, F, idom, path1, visited \cup {dom}, dom, n - 1)
                 ELSE IF dom_node.clock_speed < 250
                 THEN Verdict("Underclocked Dominator", path1, dom)
                 ELSE Verdict("Capacity-Limited Dominator", path1, dom)
            ELSE IF dom_node.category = "miner"
            THEN IF dom_node.clock_speed < 250
                 THEN Verdict("Underclocked Miner (Dominator)", path1, dom)
                 ELSE Verdict("Miner Rate Limit (Dominator)", path1, dom)
            ELSE StarvationWalk(G, F, idom, path1, visited \cup {dom}, dom, n - 1)
        Connected(dom, eid) == Judge(dom, G.nodes[dom], eid, Extended(path, eid, dom))
        Up(dom) ==
            IF dom = None \/ dom = VIRTUAL_SOURCE \/ dom \notin DOMAIN G.nodes
            THEN Verdict("Complex Chain", path, None)
            ELSE IF dom \in visited THEN Verdict("Feedback Loop (Dominator)", path, dom)
            ELSE Connected(dom, StarvationEdge(G, dom, current))
    IN  IF n = 0 THEN Verdict("Complex Chain", path, None)
        ELSE Up(Get(idom, current, None))

TRACE_DEPTH == 30

_dominator_trace_starvation(start_nid, G, F, idom) ==
    StarvationWalk(G, F, idom, <<TraceNode(start_nid)>>, {start_nid}, start_nid, TRACE_DEPTH)

\* the body of `for _ in range(30)` in _dominator_trace_backup, n rounds left
RECURSIVE BackupWalk(_, _, _, _, _, _, _)
BackupWalk(G, F, rev_idom, path, visited, current, n) ==
    LET Judge(dom, dom_node, eid, path1) ==
            IF AtCapacity(G, F, eid)
            THEN Verdict("Belt Bottleneck (Downstream Dominator)", path1, dom)
            ELSE IF dom_node.category = "production" /\ dom_node.clock_speed < 250
            THEN Verdict("Downstream Underclocked (Dominator)", path1, dom)
            ELSE BackupWalk(G, F, rev_idom, path1, visited \cup {dom}, dom, n - 1)
        Connected(dom, eid) == Judge(dom, G.nodes[dom], eid, Extended(path, eid, dom))
        Up(dom) ==
            IF dom = None \/ dom = VIRTUAL_SINK \/ dom \notin DOMAIN G.nodes
            THEN Verdict("Downstream Bottleneck", path, None)
            ELSE IF dom \in visited THEN Verdict("Feedback Loop (Downstream)", path, dom)
            ELSE Connected(dom, _find_edge_between(G, current, dom))
    IN  IF n = 0 THEN Verdict("Downstream Bottleneck", path, None)
        ELSE Up(Get(rev_idom, current, None))

_dominator_trace_backup(start_nid, G, F, rev_idom) ==
    BackupWalk(G, F, rev_idom, <<TraceNode(start_nid)>>, {start_nid}, start_nid, TRACE_DEPTH)

\* issue.update(trace)
Updated(issue, v) ==
    [issue EXCEPT !.root_cause = v.root_cause, !.trace = v.trace,
                  !.dominator_id = v.dominator_id]

perform_root_cause_analysis(issues, G, F) ==
    LET Augmented(idom, rev_idom) ==
            [k \in DOMAIN issues |->
                IF issues[k].category = "Input Starvation"
                THEN Updated(issues[k],
                             _dominator_trace_starvation(issues[k].building_id, G, F, idom))
                ELSE IF issues[k].category = "Output Backup"
                THEN Updated(issues[k],
                             _dominator_trace_backup(issues[k].building_id, G, F, rev_idom))
                ELSE issues[k]]
    IN  Augmented(build_dominator_tree(G.nodes, G.edges),
                  build_reverse_dominator_tree(G.nodes, G.edges))

\* graph_stats: the statistics reported beside the issues
graph_stats(G) ==
    LET Count(P(_)) == Cardinality({i \in DOMAIN G.nodes : P(G.nodes[i])})
    IN  [total_nodes |-> Len(G.nodes),
         total_edges |-> Len(G.edges),
         unmatched_recipes |-> Count(LAMBDA n : n.recipe_name /\ ~n.recipe_data),
         recipes_matched |-> Count(LAMBDA n : n.recipe_data),
         miners |-> Count(LAMBDA n : n.category = "miner"),
         production_with_recipe |->
             Count(LAMBDA n : n.category = "production" /\ n.recipe_data)]

\* build_flow_graph + propagate_flow + the issue rules, for one iteration order of sets
analyze_supply_chain(buildings, bs, ord) ==
    LET Detected(G, F) ==
            [graph |-> G, flows |-> F,
             issues |-> perform_root_cause_analysis(DetectIssues(G, F), G, F),
             stats |-> graph_stats(G)]
        Propagated(G) == Detected(G, propagate_flow(G, ord))
    IN  Propagated(build_flow_graph(buildings, bs))

(***************************************************************************)
(* The factories of the model.                                             *)
(***************************************************************************)
Unmatched == [matched |-> FALSE, input |-> 0, output |-> 0]
Recipe(input, output) == [matched |-> TRUE, input |-> input, output |-> output]

Building(cat, name, recipe, clock) ==
    [category |-> cat, friendly_name |-> name, recipe |-> recipe,
     recipe_name |-> recipe.matched, clock_speed |-> clock, is_producing |-> TRUE]

Belt(id, src, dst, max_rate) ==
    [id |-> id, src_building |-> src, dst_building |-> dst, max_rate |-> max_rate]

\* the machines a factory of the flow model is assembled from, by position
Miner2 == Building("miner", "Miner Mk.2", Unmatched, 100)
Constructor == Building("production", "Constructor", Recipe(120, 60), 100)
Assembler == Building("production", "Assembler", Recipe(60, 120), 100)
Merger == Building("logistics", "Merger", Unmatched, 100)
Splitter == Building("logistics", "Splitter", Unmatched, 100)
Slots == << {Miner2}, {Constructor, Merger}, {Assembler, Splitter} >>

\* Belt Mk.1 and Belt Mk.2
BeltRates == {60, 120}

Identity(n) == [i \in 1..n |-> i]
Reverse(n) == [i \in 1..n |-> n + 1 - i]
\* the iteration orders of a set of n node ids that the model tries
SetOrders(n) == {Identity(n), Reverse(n)}
SwapAt(s, i) ==
    [k \in DOMAIN s |-> IF k = i THEN s[i + 1] ELSE IF k = i + 1 THEN s[i] ELSE s[k]]

(***************************************************************************)
(* Spec: a factory is assembled (the parsed save), then uploaded: every    *)
(* upload runs the whole analysis and replaces the results.                *)
(***************************************************************************)
Init ==
    /\ nodes = <<>>
    /\ belts = <<>>
    /\ pc = "build"
    /\ setOrd = <<>>
    /\ root = None
    /\ out = <<>>
    /\ conns = <<>>
    /\ loop = NoLoop
    /\ snapshot = NoSnapshot
    /\ tickets = <<>>
    /\ uploads = <<>>

AddBuilding(b) ==
    /\ pc = "build"
    /\ belts = <<>>
    /\ Len(nodes) < MaxNodes
    /\ nodes' = Append(nodes, b)
    /\ UNCHANGED <<belts, pc, setOrd, root, out, parser, app>>

\* a belt from an output of s to an input of d (a miner has no input)
AddBelt(s, d, m) ==
    /\ pc = "build"
    /\ Len(belts) < MaxBelts
    /\ nodes[d].category # "miner"
    /\ belts' = Append(belts, Belt(Len(belts) + 1, s, d, m))
    /\ UNCHANGED <<nodes, pc, setOrd, root, out, parser, app>>

\* upload(): analyze_supply_chain on the parsed factory
Upload(ord) ==
    /\ nodes # <<>>
    /\ setOrd' = ord
    /\ out' = analyze_supply_chain(nodes, belts, ord)
    /\ pc' = "done"
    /\ UNCHANGED <<nodes, belts, root, parser, app>>

\* the same factory parsed with two neighbouring belts in the other order, uploaded
UploadReordered(i) ==
    /\ pc = "done"
    /\ belts' = SwapAt(belts, i)
    /\ out' = analyze_supply_chain(nodes, belts', setOrd)
    /\ UNCHANGED <<nodes, pc, setOrd, root, parser, app>>

Next ==
    \/ \E b \in Slots[Min(Len(nodes) + 1, Len(Slots))] : AddBuilding(b)
    \/ \E s \in DOMAIN nodes, d \in DOMAIN nodes, m \in BeltRates : AddBelt(s, d, m)
    \/ \E ord \in SetOrders(Len(nodes)) : Upload(ord)
    \/ \E i \in 1..(Len(belts) - 1) : UploadReordered(i)

Spec == Init /\ [][Next]_vars

(***************************************************************************)
(* SpecGraph: the graph algorithms applied to every small edge list.       *)
(***************************************************************************)
Plain(cat) == Building(cat, "Constructor", Unmatched, 100)
GraphEdges == build_flow_graph([i \in 1..MaxGraphNodes |-> Plain("production")], belts).edges
GraphAdj == ForwardAdj(GraphEdges, MaxGraphNodes)

GAddEdge(s, d) ==
    /\ pc = "build"
    /\ Len(belts) < MaxGraphEdges
    /\ belts' = Append(belts, Belt(Len(belts) + 1, s, d, 60))
    /\ UNCHANGED <<nodes, pc, setOrd, root, out, parser, app>>

\* tarjan_scc and condensation_topo_order on the adjacency of the edge list
GTarjan(ord) ==
    /\ pc = "build"
    /\ setOrd' = ord
    /\ LET sccs == tarjan_scc(GraphAdj, ord)
       IN  out' = [sccs |-> sccs, topo_order |-> condensation_topo_order(sccs, GraphAdj)]
    /\ pc' = "scc"
    /\ UNCHANGED <<nodes, belts, root, parser, app>>

\* lengauer_tarjan_dominators on the adjacency of the edge list
GDominators(r) ==
    /\ pc = "build"
    /\ root' = r
    /\ out' = [idom |-> lengauer_tarjan_dominators(GraphAdj, r)]
    /\ pc' = "idom"
    /\ UNCHANGED <<nodes, belts, setOrd, parser, app>>

\* build_dominator_tree for the machines, those of `miners' being miners
GForwardTree(miners) ==
    /\ pc = "build"
    /\ nodes' = [i \in 1..MaxGraphNodes |->
                    Plain(IF i \in miners THEN "miner" ELSE "production")]
    /\ LET G == build_flow_graph(nodes', belts)
       IN  out' = [idom |-> build_dominator_tree(G.nodes, G.edges)]
    /\ root' = VIRTUAL_SOURCE
    /\ pc' = "fwd"
    /\ UNCHANGED <<belts, setOrd, parser, app>>

\* build_reverse_dominator_tree for the machines, those of `stores' being storages
GReverseTree(stores) ==
    /\ pc = "build"
    /\ nodes' = [i \in 1..MaxGraphNodes |->
                    Plain(IF i \in stores THEN "storage" ELSE "production")]
    /\ LET G == build_flow_graph(nodes', belts)
       IN  out' = [rev_idom |-> build_reverse_dominator_tree(G.nodes, G.edges)]
    /\ root' = VIRTUAL_SINK
    /\ pc' = "rev"
    /\ UNCHANGED <<belts, setOrd, parser, app>>

NextGraph ==
    \/ \E s \in 1..MaxGraphNodes, d \in 1..MaxGraphNodes : GAddEdge(s, d)
    \/ \E ord \in SetOrders(MaxGraphNodes) : GTarjan(ord)
    \/ \E r \in 1..MaxGraphNodes : GDominators(r)
    \/ \E miners \in SUBSET (1..MaxGraphNodes) : GForwardTree(miners)
    \/ \E stores \in SUBSET (1..MaxGraphNodes) : GReverseTree(stores)

SpecGraph == Init /\ [][NextGraph]_vars

(***************************************************************************)
(* Reachability and dominance by their definitions, on the conduits of the *)
(* state: the yardstick the algorithms are measured against.               *)
(***************************************************************************)
Conduits == {<<belts[k].src_building, belts[k].dst_building>> : k \in DOMAIN belts}
Endpoints(E) == {e[1] : e \in E} \cup {e[2] : e \in E}

RECURSIVE Closure(_, _)
Closure(E, S) ==
    LET T == S \cup {e[2] : e \in {x \in E : x[1] \in S}}
    IN  IF T = S THEN S ELSE Closure(E, T)
\* the nodes reached from n by a path (of length 0 or more)
ReachedFrom(E, n) == Closure(E, {n})
\* the nodes reached from n by a path that does not pass through d
ReachedAvoiding(E, n, d) == Closure({e \in E : e[1] # d /\ e[2] # d}, {n})
MutuallyReachable(E, u, v) == v \in ReachedFrom(E, u) /\ u \in ReachedFrom(E, v)

\* d is a strict dominator of n: every path from r to n passes through d
StrictlyDominates(E, r, d, n) == d # n /\ n \notin ReachedAvoiding(E, r, d)
\* d is the immediate dominator of n: the strict dominator every other one dominates
ImmediateDominator(E, r, d, n) ==
    /\ StrictlyDominates(E, r, d, n)
    /\ \A x \in Endpoints(E) : StrictlyDominates(E, r, x, n) => x = d \/ StrictlyDominates(E, r, x, d)

Machines == 1..MaxGraphNodes
\* the conduits together with the virtual source's edges to the miners and unfed machines
SourcedConduits ==
    Conduits \cup {<<VIRTUAL_SOURCE, m>> : m \in
        {m \in Machines : nodes[m].category = "miner" \/ ~ \E e \in Conduits : e[2] = m}}
\* the machines the virtual sink is attached to: storages and machines without outgoing conduit
SinkAttached ==
    {m \in Machines : nodes[m].category = "storage" \/ ~ \E e \in Conduits : e[1] = m}
\* every path from n to a sink-attached machine passes through d, another machine
OnEveryPathToSink(d, n) ==
    d \in Machines /\ d # n /\ ReachedAvoiding(Conduits, n, d) \cap SinkAttached = {}

\* C4: lengauer_tarjan_dominators (called directly with any root, and through
\* build_dominator_tree with the virtual source) maps exactly the nodes reachable
\* from the root, other than the root, each to its immediate dominator; nodes
\* that cannot be reached from the root are not keys of the result.
DominatorsAreImmediate ==
    pc \in {"idom", "fwd"} =>
        LET E == IF pc = "fwd" THEN SourcedConduits ELSE Conduits
        IN  /\ DOMAIN out.idom = ReachedFrom(E, root) \ {root}
            /\ \A n \in DOMAIN out.idom : ImmediateDominator(E, root, out.idom[n], n)

\* a machine that is not reached from the root, and a machine with two
\* predecessors whose immediate dominator is neither the root nor unique predecessor
DominatorsWitness ==
    /\ pc = "idom"
    /\ \E n \in Endpoints(Conduits) : n # root /\ n \notin DOMAIN out.idom
    /\ \E n \in DOMAIN out.idom :
          /\ out.idom[n] # root
          /\ Cardinality({e \in Conduits : e[2] = n}) >= 2

\* C5: build_reverse_dominator_tree gives every machine n that reaches a
\* sink-attached machine a node d: a machine on every path from n to any
\* sink-attached machine, or the virtual sink when there is no such machine.
ReverseDominatorsOnEveryPath ==
    pc = "rev" =>
        \A n \in Machines :
            ReachedFrom(Conduits, n) \cap SinkAttached # {} =>
                /\ n \in DOMAIN out.rev_idom
                /\ LET d == out.rev_idom[n]
                   IN  IF \E x \in Machines : OnEveryPathToSink(x, n)
                       THEN OnEveryPathToSink(d, n)
                       ELSE d = VIRTUAL_SINK

\* a machine whose reverse dominator is another machine, and a storage that
\* is attached to the sink although it has an outgoing conduit
ReverseDominatorsWitness ==
    /\ pc = "rev"
    /\ \E n \in DOMAIN out.rev_idom : out.rev_idom[n] \in Machines
    /\ \E m \in DOMAIN out.rev_idom :
          /\ nodes[m].category = "storage"
          /\ out.rev_idom[m] = VIRTUAL_SINK
          /\ \E e \in Conduits : e[1] = m

\* C6: tarjan_scc returns a partition of the nodes that occur in the adjacency
\* (as sources or targets of conduits), and two nodes are in the same set
\* exactly when each is reachable from the other.
SccsPartitionByMutualReachability ==
    pc = "scc" =>
        /\ UNION Range(out.sccs) = Endpoints(Conduits)
        /\ \A i \in DOMAIN out.sccs : out.sccs[i] # {}
        /\ \A i, j \in DOMAIN out.sccs : i # j => out.sccs[i] \cap out.sccs[j] = {}
        /\ \A u, v \in Endpoints(Conduits) :
              (\E i \in DOMAIN out.sccs : u \in out.sccs[i] /\ v \in out.sccs[i])
                  <=> MutuallyReachable(Conduits, u, v)

\* a cycle through two nodes with a conduit leaving it
SccsWitness ==
    /\ pc = "scc"
    /\ \E i \in DOMAIN out.sccs : Cardinality(out.sccs[i]) = 2
    /\ Len(out.sccs) >= 2

(***************************************************************************)
(* The flows of an uploaded factory.                                       *)
(***************************************************************************)
Flow(eid) == out.flows.flow[eid]
\* the sum of the final flow rates of the conduits that end in machine m
Inflow(m) ==
    SumSeq([k \in DOMAIN belts |-> IF belts[k].dst_building = m THEN Flow(belts[k].id) ELSE 0])
\* the position of SCC i in the order of evaluation
EvaluatedAt(i) == CHOOSE k \in DOMAIN out.flows.trace : out.flows.trace[k] = i
SccOf(m) == CHOOSE i \in DOMAIN out.flows.sccs : m \in out.flows.sccs[i]
AloneInScc(m) == \A x \in DOMAIN nodes : x # m => ~MutuallyReachable(Conduits, m, x)

\* C1: after propagate_flow every conduit of the flow graph carries a flow
\* rate between 0 and its max_rate, whatever the shape of the graph.
FlowWithinCapacity ==
    pc = "done" =>
        \A k \in DOMAIN belts :
            0 <= Flow(belts[k].id) /\ Flow(belts[k].id) <= belts[k].max_rate * SCALE

\* a conduit filled to its capacity by more than it can carry, beside a cycle
FlowWithinCapacityWitness ==
    /\ pc = "done"
    /\ out.flows.log # <<>>
    /\ \E k \in DOMAIN belts :
          /\ Flow(belts[k].id) = belts[k].max_rate * SCALE
          /\ out.flows.aout[belts[k].src_building] > belts[k].max_rate * SCALE

\* C2: after propagate_flow every machine's available_input is the sum of the
\* final flow rates of its incoming conduits, within 0.01 (machines in cycles
\* and machines with a self-loop included).
AvailableInputIsInflow ==
    pc = "done" =>
        \A m \in DOMAIN nodes : Abs(out.flows.ain[m] - Inflow(m)) <= EPSILON

\* C3: a production machine with a matched recipe and expected input > 0 that
\* is alone in its SCC has
\* available_output = expected_outputs * min(available_input / expected_inputs, 1).
SingletonOutputFollowsRecipe ==
    pc = "done" =>
        \A m \in DOMAIN nodes :
            LET node == out.graph.nodes[m]
            IN  (node.category = "production" /\ node.recipe_data
                 /\ node.expected_inputs > 0 /\ AloneInScc(m))
                => out.flows.aout[m] =
                     MulDiv(node.expected_outputs,
                            Min(out.flows.ain[m], node.expected_inputs), node.expected_inputs)

\* a starved producer (input below the recipe's) and a saturated one (input above it)
SingletonOutputWitness ==
    /\ pc = "done"
    /\ \E m \in DOMAIN nodes :
          /\ nodes[m].category = "production" /\ AloneInScc(m)
          /\ 0 < out.flows.ain[m] /\ out.flows.ain[m] < out.graph.nodes[m].expected_inputs
    /\ \E m \in DOMAIN nodes :
          /\ nodes[m].category = "production" /\ AloneInScc(m)
          /\ out.flows.ain[m] > out.graph.nodes[m].expected_inputs

\* C7: propagate_flow evaluates every SCC of the machine graph exactly once,
\* the SCC of u before the SCC of v for every conduit u -> v that crosses
\* SCCs; condensation_topo_order is a permutation of all SCC indices.
SccsEvaluatedOnceInTopologicalOrder ==
    pc = "done" =>
        /\ UNION Range(out.flows.sccs) = Endpoints(Conduits)
        /\ \A u, v \in Endpoints(Conduits) :
              SccOf(u) = SccOf(v) <=> MutuallyReachable(Conduits, u, v)
        /\ Len(out.flows.topo_order) = Len(out.flows.sccs)
        /\ Range(out.flows.topo_order) = DOMAIN out.flows.sccs
        /\ \A i \in DOMAIN out.flows.sccs :
              Cardinality({k \in DOMAIN out.flows.trace : out.flows.trace[k] = i}) = 1
        /\ \A e \in Conduits :
              SccOf(e[1]) # SccOf(e[2]) => EvaluatedAt(SccOf(e[1])) < EvaluatedAt(SccOf(e[2]))

\* a cycle of two machines that a conduit from a machine outside it feeds
SccsEvaluatedWitness ==
    /\ pc = "done"
    /\ \E i \in DOMAIN out.flows.sccs : Cardinality(out.flows.sccs[i]) = 2
    /\ \E k \in DOMAIN belts :
          /\ SccOf(belts[k].src_building) # SccOf(belts[k].dst_building)
          /\ Cardinality(out.flows.sccs[SccOf(belts[k].dst_building)]) = 2

\* C8: two runs of the analysis on the same factory give the same conduit
\* flow rates, the same available_input and available_output of every machine
\* and the same issue list, whatever order the sets are iterated in.
SameFactorySameResults ==
    [][(pc = "done" /\ pc' = "done" /\ nodes' = nodes /\ belts' = belts)
        => /\ out'.flows.flow = out.flows.flow
           /\ out'.flows.ain = out.flows.ain
           /\ out'.flows.aout = out.flows.aout
           /\ out'.issues = out.issues]_vars

\* C9: giving the analyzer the conduits in another order leaves the set of
\* issues and (within 0.01) every conduit's flow rate unchanged.
ReorderingChangesNothing ==
    [][(pc = "done" /\ pc' = "done" /\ nodes' = nodes /\ setOrd' = setOrd)
        => /\ Range(out'.issues) = Range(out.issues)
           /\ \A eid \in DOMAIN out.flows.flow :
                 Abs(out'.flows.flow[eid] - out.flows.flow[eid]) <= EPSILON]_vars

(***************************************************************************)
(* SpecCycle: a miner feeds producer A, A feeds B and B feeds A back, for  *)
(* a choice of miner, clock, recipes and belts; then the factory is        *)
(* uploaded.                                                               *)
(***************************************************************************)
CycleMiners == {"Miner Mk.1", "Miner Mk.2"}
\* the game's clock range is 1 % to 250 %
CycleClocks == {1, 50, 100}
CycleRecipes == {Recipe(30, 30), Recipe(60, 60), Recipe(120, 60), Recipe(60, 120)}

InitCycle ==
    /\ \E mk \in CycleMiners, c \in CycleClocks, ra \in CycleRecipes, rb \in CycleRecipes :
          nodes = << Building("miner", mk, Unmatched, c),
                     Building("production", "Constructor", ra, 100),
                     Building("production", "Constructor", rb, 100) >>
    /\ \E m1 \in BeltRates, m2 \in BeltRates, m3 \in BeltRates :
          belts = << Belt(1, 1, 2, m1), Belt(2, 2, 3, m2), Belt(3, 3, 2, m3) >>
    /\ pc = "build"
    /\ setOrd = <<>>
    /\ root = None
    /\ out = <<>>
    /\ conns = <<>>
    /\ loop = NoLoop
    /\ snapshot = NoSnapshot
    /\ tickets = <<>>
    /\ uploads = <<>>

NextCycle == \E ord \in SetOrders(Len(nodes)) : Upload(ord)

SpecCycle == InitCycle /\ [][NextCycle]_vars

\* C10: for the two-producer cycle A -> B -> A fed by one miner into A, with
\* any recipe rates, clocks and conduit capacities, _fixed_point_scc leaves by
\* convergence (a sweep whose largest output change is below 0.01) and not by
\* the cap of 100 sweeps.
CycleConverges ==
    pc = "done" =>
        /\ out.flows.log # <<>>
        /\ \A k \in DOMAIN out.flows.log :
              out.flows.log[k].converged /\ out.flows.log[k].sweeps <= MAX_ITER

\* C11: when a cyclic SCC has not converged after 100 sweeps the analysis still
\* completes with the last damped state, and the reported statistics carry a
\* non-convergence warning counter that was incremented.
NonConvergenceCounted ==
    (pc = "done" /\ \E k \in DOMAIN out.flows.log : ~out.flows.log[k].converged)
        => /\ "non_converged" \in DOMAIN out.stats
           /\ out.stats["non_converged"] > 0

(***************************************************************************)
(* parse_save, Pass 3 to Pass 4: direction resolution.  A component is     *)
(*   [kind, id, name]                                                      *)
(* kind "bldg" or "belt" and id being component_to_building[component],    *)
(* name the last segment of its path name.  A conduit of the parser is a   *)
(* belt record with the field is_pipe, both ends None before Pass 3.       *)
(***************************************************************************)
Component(kind, id, name) == [kind |-> kind, id |-> id, name |-> name]

_component_direction(name) ==
    CASE name = "ConveyorAny0" -> "belt_in"
      [] name = "ConveyorAny1" -> "belt_out"
      [] name \in {"PipelineConnection0", "PipelineConnection1"} -> "pipe_end"
      [] name \in {"Input0", "Input1", "PipeInputFactory"} -> "input"
      [] name \in {"Output0", "Output1", "PipeOutputFactory"} -> "output"
      [] name \in {"Connection0", "Connection1"} -> "pipe_end"
      [] OTHER -> "none"

\* component_direction.get(comp)
Dir(c) == _component_direction(c.name)

Conduit(id, is_pipe) ==
    [id |-> id, src_building |-> None, dst_building |-> None,
     max_rate |-> IF is_pipe THEN 300 ELSE 60, is_pipe |-> is_pipe]

\* the two ends of a conduit: ConveyorAny0/ConveyorAny1, PipelineConnection0/1
ConduitEnds(bs, k) ==
    IF bs[k].is_pipe
    THEN {Component("belt", k, "PipelineConnection0"), Component("belt", k, "PipelineConnection1")}
    ELSE {Component("belt", k, "ConveyorAny0"), Component("belt", k, "ConveyorAny1")}

SetSrc(bs, k, b) == [bs EXCEPT ![k].src_building = b]
SetDst(bs, k, b) == [bs EXCEPT ![k].dst_building = b]

\* not bld_a or not bld_b or bld_a == bld_b
Skipped(a, b) == a.kind = b.kind /\ a.id = b.id

\* Pass 3, cases 1 and 2: a building port against a conduit end
Pass3Ports(bs, a, b) ==
    IF a.kind = "bldg" /\ b.kind = "belt"
    THEN IF Dir(a) = "output" /\ Dir(b) \in {"belt_in", "pipe_end"} THEN SetSrc(bs, b.id, a.id)
         ELSE IF Dir(a) = "input" /\ Dir(b) \in {"belt_out", "pipe_end"} THEN SetDst(bs, b.id, a.id)
         ELSE bs
    ELSE IF a.kind = "belt" /\ b.kind = "bldg"
    THEN IF Dir(a) \in {"belt_out", "pipe_end"} /\ Dir(b) = "input" THEN SetDst(bs, a.id, b.id)
         ELSE IF Dir(a) \in {"belt_in", "pipe_end"} /\ Dir(b) = "output" THEN SetSrc(bs, a.id, b.id)
         ELSE bs
    ELSE bs

\* a variant that only ever infers the destination of a pipe
InferEndForward(bs, k, b) ==
    IF bs[k].src_building # None /\ bs[k].dst_building = None THEN SetDst(bs, k, b)
    ELSE bs

\* a pipe that knows one end takes the building for its other end
InferEnd(bs, k, b) ==
    IF bs[k].src_building # None /\ bs[k].dst_building = None THEN SetDst(bs, k, b)
    ELSE IF bs[k].dst_building # None /\ bs[k].src_building = None THEN SetSrc(bs, k, b)
    ELSE bs

\* Pass 3, case 3: pipe_end against pipe_end
Pass3Junction(bs, a, b) ==
    IF a.kind = "bldg" /\ b.kind = "belt" /\ Dir(a) = "pipe_end" /\ Dir(b) = "pipe_end"
    THEN IF bs[b.id].is_pipe THEN InferEnd(bs, b.id, a.id) ELSE bs
    ELSE IF a.kind = "belt" /\ b.kind = "bldg" /\ Dir(a) = "pipe_end" /\ Dir(b) = "pipe_end"
    THEN IF bs[a.id].is_pipe THEN InferEnd(bs, a.id, b.id) ELSE bs
    ELSE bs

\* one entry of factory.connections.items() in Pass 3
Pass3Conn(bs, a, b) ==
    IF Skipped(a, b) THEN bs ELSE Pass3Junction(Pass3Ports(bs, a, b), a, b)

\* the entries lo..hi in order (the range is halved to keep the nesting shallow)
RECURSIVE Pass3Range(_, _, _, _)
Pass3Range(bs, cs, lo, hi) ==
    IF lo > hi THEN bs
    ELSE IF lo = hi THEN Pass3Conn(bs, cs[lo][1], cs[lo][2])
    ELSE LET Rest(half) ==
                 IF half = <<>> THEN half
                 ELSE Pass3Range(half, cs, (lo + hi) \div 2 + 1, hi)
         IN  Rest(Pass3Range(bs, cs, lo, (lo + hi) \div 2))

Pass3(bs, cs) == Pass3Range(bs, cs, 1, Len(cs))

\* Pass 3.5: pipe_end_connections, as [pipe, other, other_is_building]
PipeEndEntries(bs, a, b) ==
    LET a_is_pipe == a.kind = "belt" /\ bs[a.id].is_pipe
        b_is_pipe == b.kind = "belt" /\ bs[b.id].is_pipe
        Entry(pipe, other, is_bldg) ==
            [pipe |-> pipe, other |-> other, other_is_building |-> is_bldg]
    IN  IF Skipped(a, b) \/ Dir(a) # "pipe_end" \/ Dir(b) # "pipe_end" THEN <<>>
        ELSE IF a_is_pipe /\ b.kind = "bldg" THEN <<Entry(a.id, b.id, TRUE)>>
        ELSE IF b_is_pipe /\ a.kind = "bldg" THEN <<Entry(b.id, a.id, TRUE)>>
        ELSE IF a_is_pipe /\ b_is_pipe
             THEN <<Entry(a.id, b.id, FALSE), Entry(b.id, a.id, FALSE)>>
        ELSE <<>>

RECURSIVE PipeEndRange(_, _, _, _)
PipeEndRange(bs, cs, lo, hi) ==
    IF lo > hi THEN <<>>
    ELSE IF lo = hi THEN PipeEndEntries(bs, cs[lo][1], cs[lo][2])
    ELSE PipeEndRange(bs, cs, lo, (lo + hi) \div 2)
             \o PipeEndRange(bs, cs, (lo + hi) \div 2 + 1, hi)

pipe_end_connections(bs, cs) == PipeEndRange(bs, cs, 1, Len(cs))

\* one entry of one sweep of the pipe loop; S is [belts, changed]
PipeRelax(S, e) ==
    LET Inferred(bs) == [belts |-> bs, changed |-> S.changed \/ bs # S.belts]
    IN  IF e.other_is_building THEN Inferred(InferEnd(S.belts, e.pipe, e.other)) ELSE S

RECURSIVE PipeSweepRange(_, _, _, _)
PipeSweepRange(S, es, lo, hi) ==
    IF lo > hi THEN S
    ELSE IF lo = hi THEN PipeRelax(S, es[lo])
    ELSE LET Rest(half) ==
                 IF half.belts = <<>> THEN half
                 ELSE PipeSweepRange(half, es, (lo + hi) \div 2 + 1, hi)
         IN  Rest(PipeSweepRange(S, es, lo, (lo + hi) \div 2))

\* Pass 4, step 1: belt_chain_conns, as [belt, neighbor, direction]
ChainConn(bs, a, b) ==
    IF Skipped(a, b) \/ a.kind # "belt" \/ b.kind # "belt" THEN <<>>
    ELSE IF bs[a.id].is_pipe \/ bs[b.id].is_pipe THEN <<>>
    ELSE IF Dir(a) = "belt_out" /\ Dir(b) = "belt_in"
         THEN <<[belt |-> a.id, neighbor |-> b.id, direction |-> "forward"]>>
    ELSE IF Dir(a) = "belt_in" /\ Dir(b) = "belt_out"
         THEN <<[belt |-> a.id, neighbor |-> b.id, direction |-> "backward"]>>
    ELSE <<>>

\* Pass 4, step 2: the appends to belt_adj, in the order they are made
Mirror(e) ==
    [belt |-> e.neighbor, neighbor |-> e.belt,
     direction |-> IF e.direction = "forward" THEN "backward" ELSE "forward"]

AdjAppends(bs, cs) ==
    [i \in 1..(2 * Len(cs)) |->
        LET c == cs[(i + 1) \div 2]
            e == ChainConn(bs, c[1], c[2])
        IN  IF e = <<>> THEN <<>> ELSE IF i % 2 = 1 THEN e ELSE <<Mirror(e[1])>>]

\* belt_adj.items() flattened: the keys in the order of their first append,
\* the neighbours of a key in the order of their appends
belt_adj(bs, cs) ==
    LET A == AdjAppends(bs, cs)
        SameKey(i) == {j \in 1..i : A[j] # <<>> /\ A[j][1].belt = A[i][1].belt}
        Least(S) == CHOOSE j \in S : \A h \in S : j <= h
        Firsts == [i \in DOMAIN A |-> IF A[i] = <<>> THEN 0 ELSE Least(SameKey(i))]
        Ordered(F) ==
            SortSeq(SelectSeq([i \in DOMAIN A |-> i], LAMBDA i : A[i] # <<>>),
                    LAMBDA i, j : F[i] < F[j] \/ (F[i] = F[j] /\ i < j))
        Entries(O) == [r \in DOMAIN O |-> A[O[r]][1]]
    IN  Entries(Ordered(Firsts))

\* a variant that passes the source down a chain but no destination up
InheritSource(bs, from, to, end) ==
    IF end = "src_building" /\ bs[from][end] # None /\ bs[to][end] = None
    THEN [bs EXCEPT ![to][end] = bs[from][end]]
    ELSE bs

\* an end inherited along one link: only an unset end is written
Inherit(bs, from, to, end) ==
    IF bs[from][end] # None /\ bs[to][end] = None
    THEN [bs EXCEPT ![to][end] = bs[from][end]]
    ELSE bs

\* one neighbour of one belt in one sweep of the belt loop; S is [belts, changed]
BeltRelax(S, e) ==
    LET up == IF e.direction = "forward" THEN e.belt ELSE e.neighbor
        down == IF e.direction = "forward" THEN e.neighbor ELSE e.belt
        Relaxed(bs) == [belts |-> bs, changed |-> S.changed \/ bs # S.belts]
    IN  Relaxed(Inherit(Inherit(S.belts, up, down, "src_building"),
                        down, up, "dst_building"))

RECURSIVE BeltSweepRange(_, _, _, _)
BeltSweepRange(S, es, lo, hi) ==
    IF lo > hi THEN S
    ELSE IF lo = hi THEN BeltRelax(S, es[lo])
    ELSE LET Rest(half) ==
                 IF half.belts = <<>> THEN half
                 ELSE BeltSweepRange(half, es, (lo + hi) \div 2 + 1, hi)
         IN  Rest(BeltSweepRange(S, es, lo, (lo + hi) \div 2))

\* output_belts and input_belts of the buildings, as [output_belts, input_belts],
\* each a set of conduit ids per building: an append is guarded by `not in',
\* and the order of a list is not modelled
NoLists(n) == [output_belts |-> [b \in 1..n |-> {}], input_belts |-> [b \in 1..n |-> {}]]

\* Pass 3 and Pass 3.5 append a conduit to the list of the building together
\* with the assignment of its end: the ends that differ between old and new
Registered(L, old, new) ==
    [output_belts |-> [b \in DOMAIN L.output_belts |->
        L.output_belts[b] \cup {k \in DOMAIN new : new[k].src_building = b
                                                     /\ old[k].src_building # b}],
     input_belts |-> [b \in DOMAIN L.input_belts |->
        L.input_belts[b] \cup {k \in DOMAIN new : new[k].dst_building = b
                                                    /\ old[k].dst_building # b}]]

\* the lists after the entries lo..hi of Pass 3; S is [belts, lists]
RECURSIVE Pass3ListsRange(_, _, _, _)
Pass3ListsRange(S, cs, lo, hi) ==
    IF lo > hi THEN S
    ELSE IF lo = hi
    THEN LET Step(bs) == [belts |-> bs, lists |-> Registered(S.lists, S.belts, bs)]
         IN  Step(Pass3Conn(S.belts, cs[lo][1], cs[lo][2]))
    ELSE LET Rest(half) ==
                 IF half.belts = <<>> THEN half
                 ELSE Pass3ListsRange(half, cs, (lo + hi) \div 2 + 1, hi)
         IN  Rest(Pass3ListsRange(S, cs, lo, (lo + hi) \div 2))

Pass3Lists(bs, cs, n) ==
    Pass3ListsRange([belts |-> bs, lists |-> NoLists(n)], cs, 1, Len(cs)).lists

\* a variant of step 4 that registers the belts with their source only
RegisterDirectedBeltsAtSource(L, bs) ==
    [output_belts |-> [b \in DOMAIN L.output_belts |->
        L.output_belts[b] \cup {k \in DOMAIN bs : /\ ~bs[k].is_pipe
                                                    /\ bs[k].src_building = b
                                                    /\ bs[k].dst_building # None}],
     input_belts |-> L.input_belts]

\* Pass 4, step 4: belts with both ends set are registered with their buildings
RegisterDirectedBelts(L, bs) ==
    [output_belts |-> [b \in DOMAIN L.output_belts |->
        L.output_belts[b] \cup {k \in DOMAIN bs : /\ ~bs[k].is_pipe
                                                    /\ bs[k].src_building = b
                                                    /\ bs[k].dst_building # None}],
     input_belts |-> [b \in DOMAIN L.input_belts |->
        L.input_belts[b] \cup {k \in DOMAIN bs : /\ ~bs[k].is_pipe
                                                   /\ bs[k].dst_building = b
                                                   /\ bs[k].src_building # None}]]

\* `while changed and iterations < 100', `while belt_changed and belt_iters < 200'
PIPE_MAX_ITERS == 100
BELT_MAX_ITERS == 200


(***************************************************************************)
(* SpecParse: a save is wired (components are connected), parse_save       *)
(* resolves the directions, one sweep of its loops per step, and the       *)
(* parsed factory is uploaded.                                             *)
(***************************************************************************)
MaxConns == 3
Junction == Building("logistics", "Pipe Junction", Unmatched, 100)

\* the connectors of a building
PortsOf(ns, i) ==
    IF ns[i].friendly_name \in JunctionNames \cup PumpNames
    THEN {Component("bldg", i, "Connection0")}
    ELSE IF ns[i].category = "miner" THEN {Component("bldg", i, "Output0")}
    ELSE {Component("bldg", i, "Input0"), Component("bldg", i, "Output0")}

Components ==
    UNION {PortsOf(nodes, i) : i \in DOMAIN nodes}
        \cup UNION {ConduitEnds(belts, k) : k \in DOMAIN belts}

Connected == UNION {{conns[i][1], conns[i][2]} : i \in DOMAIN conns}

InitParse ==
    /\ nodes = <<Miner2, Constructor, Junction>>
    /\ \E p1 \in BOOLEAN, p2 \in BOOLEAN : belts = <<Conduit(1, p1), Conduit(2, p2)>>
    /\ pc = "wire"
    /\ setOrd = <<>>
    /\ root = None
    /\ out = <<>>
    /\ conns = <<>>
    /\ loop = NoLoop
    /\ snapshot = NoSnapshot
    /\ tickets = <<>>
    /\ uploads = <<>>

\* mConnectedComponent of a connector that is still free: one entry of
\* factory.connections, between a conduit end and another object's connector
Connect(a, b) ==
    /\ pc = "wire"
    /\ Len(conns) < MaxConns
    /\ a \notin Connected /\ b \notin Connected
    /\ ~Skipped(a, b)
    /\ "belt" \in {a.kind, b.kind}
    /\ conns' = Append(conns, <<a, b>>)
    /\ UNCHANGED <<nodes, belts, pc, setOrd, root, out, loop, app>>

\* Pass 3, then the set-up of the pipe loop
ResolveDirections ==
    /\ pc = "wire"
    /\ belts' = Pass3(belts, conns)
    /\ loop' = [NoLoop EXCEPT !.changed = TRUE,
                              !.pipe_end_connections = pipe_end_connections(belts, conns),
                              !.output_belts = Pass3Lists(belts, conns, Len(nodes)).output_belts,
                              !.input_belts = Pass3Lists(belts, conns, Len(nodes)).input_belts]
    /\ pc' = "pipes"
    /\ UNCHANGED <<nodes, setOrd, root, out, conns, app>>

\* one iteration of `while changed and iterations < 100'; the iteration that
\* leaves the loop also collects belt_adj for the belt loop
PipeSweep ==
    /\ pc = "pipes"
    /\ LET Swept(S) ==
               LET L == Registered(loop, belts, S.belts)
               IN  /\ belts' = S.belts
                   /\ IF S.changed /\ loop.iterations + 1 < PIPE_MAX_ITERS
                      THEN /\ loop' = [loop EXCEPT !.iterations = @ + 1, !.changed = S.changed,
                                                   !.output_belts = L.output_belts,
                                                   !.input_belts = L.input_belts]
                           /\ pc' = "pipes"
                      ELSE /\ loop' = [loop EXCEPT !.iterations = @ + 1, !.changed = S.changed,
                                                   !.belt_changed = TRUE,
                                                   !.belt_adj = belt_adj(S.belts, conns),
                                                   !.output_belts = L.output_belts,
                                                   !.input_belts = L.input_belts]
                           /\ pc' = "chains"
       IN  Swept(PipeSweepRange([belts |-> belts, changed |-> FALSE],
                                loop.pipe_end_connections, 1, Len(loop.pipe_end_connections)))
    /\ UNCHANGED <<nodes, setOrd, root, out, conns, app>>

\* one iteration of `while belt_changed and belt_iters < 200'; the iteration
\* that leaves the loop goes on to step 4
BeltSweep ==
    /\ pc = "chains"
    /\ LET Swept(S) ==
               LET again == S.changed /\ loop.belt_iters + 1 < BELT_MAX_ITERS
                   L == IF again THEN loop ELSE RegisterDirectedBelts(loop, S.belts)
               IN  /\ belts' = S.belts
                   /\ loop' = [loop EXCEPT !.belt_iters = @ + 1, !.belt_changed = S.changed,
                                           !.output_belts = L.output_belts,
                                           !.input_belts = L.input_belts]
                   /\ pc' = IF again THEN "chains" ELSE "parsed"
       IN  Swept(BeltSweepRange([belts |-> belts, changed |-> FALSE],
                                loop.belt_adj, 1, Len(loop.belt_adj)))
    /\ UNCHANGED <<nodes, setOrd, root, out, conns, app>>

\* upload() of the parsed save
UploadParsed ==
    /\ pc = "parsed"
    /\ Upload(Identity(Len(nodes)))

NextParse ==
    \/ \E a \in Components, b \in Components : Connect(a, b)
    \/ ResolveDirections
    \/ PipeSweep
    \/ BeltSweep
    \/ UploadParsed

SpecParse == InitParse /\ [][NextParse]_vars

\* C12: after direction resolution and graph building every conduit that has
\* both src and dst set joins two existing machines, and src # dst, whatever
\* the wiring (a belt or belt chain may leave and re-enter the same machine).
DirectedConduitsJoinTwoMachines ==
    pc \in {"parsed", "done"} =>
        \A k \in DOMAIN belts :
            (belts[k].src_building # None /\ belts[k].dst_building # None) =>
                /\ belts[k].src_building \in DOMAIN nodes
                /\ belts[k].dst_building \in DOMAIN nodes
                /\ belts[k].src_building # belts[k].dst_building
                /\ pc = "done" =>
                      \E e \in Range(out.graph.edges) :
                          e.belt_id = belts[k].id /\ e.src \in DOMAIN out.graph.nodes
                              /\ e.dst \in DOMAIN out.graph.nodes /\ e.src # e.dst


(***************************************************************************)
(* SpecChain: one long run of belts from the miner to the constructor,     *)
(* the belt-to-belt connections listed from the far end or from the near   *)
(* end; parse_save resolves the directions.                                *)
(***************************************************************************)
ChainLen == 201

\* belt i + 1 receives from belt i
ChainLink(i) ==
    <<Component("belt", i + 1, "ConveyorAny0"), Component("belt", i, "ConveyorAny1")>>

ChainConns(n, far_first) ==
    << <<Component("bldg", 1, "Output0"), Component("belt", 1, "ConveyorAny0")>>,
       <<Component("belt", n, "ConveyorAny1"), Component("bldg", 2, "Input0")>> >>
    \o [i \in 1..(n - 1) |-> ChainLink(IF far_first THEN n - i ELSE i)]

InitChain ==
    /\ nodes = <<Miner2, Constructor>>
    /\ belts = [k \in 1..ChainLen |-> Conduit(k, FALSE)]
    /\ \E far_first \in BOOLEAN : conns = ChainConns(ChainLen, far_first)
    /\ pc = "wire"
    /\ setOrd = <<>>
    /\ root = None
    /\ out = <<>>
    /\ loop = NoLoop
    /\ snapshot = NoSnapshot
    /\ tickets = <<>>
    /\ uploads = <<>>

NextChain ==
    \/ ResolveDirections
    \/ PipeSweep
    \/ BeltSweep

SpecChain == InitChain /\ [][NextChain]_vars

\* the endpoints of the conduits that are set
SetEnds(bs) ==
    {<<k, "src">> : k \in {h \in DOMAIN bs : bs[h].src_building # None}}
        \cup {<<k, "dst">> : k \in {h \in DOMAIN bs : bs[h].dst_building # None}}

\* what C14 says of one sweep of either loop
SweepIsMonotoneAndStopsUnchanged ==
    pc \in {"pipes", "chains"} =>
        /\ \A k \in DOMAIN belts :
              /\ belts[k].src_building # None =>
                    belts'[k].src_building = belts[k].src_building
              /\ belts[k].dst_building # None =>
                    belts'[k].dst_building = belts[k].dst_building
        /\ (IF pc = "pipes" THEN loop'.changed ELSE loop'.belt_changed) =>
              SetEnds(belts') \ SetEnds(belts) # {}
        /\ pc' # pc => ~(IF pc = "pipes" THEN loop'.changed ELSE loop'.belt_changed)
        /\ (IF pc = "pipes" THEN loop'.iterations ELSE loop'.belt_iters)
              <= 2 * Len(belts) + 1

\* C14: in the pipe-direction loop and the belt-chain loop an endpoint, once
\* set, is never cleared or changed; every sweep that reports a change sets at
\* least one endpoint that was unset; and each loop stops at a sweep without
\* change after at most 2 x (number of conduits) changing sweeps.
LoopsAreMonotoneAndStopUnchanged == [][SweepIsMonotoneAndStopsUnchanged]_vars

(***************************************************************************)
(* The edge lists of the flow graph                                        *)
(***************************************************************************)
Occurrences(list, x) == Cardinality({k \in DOMAIN list : list[k] = x})

\* C13: in the flow graph of an analysis, a conduit stands in a machine's
\* out_edges exactly once when the machine is its src and not at all
\* otherwise, and in a machine's in_edges exactly once when the machine is
\* its dst and not at all otherwise; the lists hold nothing but conduits.
EdgeListsMatchEndpoints ==
    pc = "done" =>
        \A m \in DOMAIN out.graph.nodes :
            /\ \A k \in DOMAIN out.graph.edges :
                LET e == out.graph.edges[k]
                IN  /\ Occurrences(out.graph.nodes[m].out_edges, e.belt_id)
                         = (IF e.src = m THEN 1 ELSE 0)
                    /\ Occurrences(out.graph.nodes[m].in_edges, e.belt_id)
                         = (IF e.dst = m THEN 1 ELSE 0)
            /\ \A k \in DOMAIN out.graph.nodes[m].out_edges :
                out.graph.nodes[m].out_edges[k] \in EdgeIds(out.graph)
            /\ \A k \in DOMAIN out.graph.nodes[m].in_edges :
                out.graph.nodes[m].in_edges[k] \in EdgeIds(out.graph)

\* an analysed factory with a belt from a machine to itself and a machine
\* that feeds two belts
EdgeListsWitness ==
    /\ pc = "done"
    /\ \E k \in DOMAIN out.graph.edges : out.graph.edges[k].src = out.graph.edges[k].dst
    /\ \E m \in DOMAIN out.graph.nodes :
        /\ Len(out.graph.nodes[m].out_edges) >= 2
        /\ Len(out.graph.nodes[m].in_edges) >= 1

(***************************************************************************)
(* The Belt Bottleneck rule                                                *)
(***************************************************************************)
BeltBottleneckIssues(eid) ==
    {k \in DOMAIN out.issues :
        out.issues[k].category = "Belt Bottleneck" /\ out.issues[k].belt_id = eid}

NearCapacity(e) ==
    /\ out.flows.flow[e.belt_id] * 100 >= e.max_rate * SCALE * 95
    /\ out.flows.flow[e.belt_id] > 0

\* C16: after an analysis every conduit whose flow is positive and at least
\* 95% of its capacity has exactly one Belt Bottleneck issue, every other
\* conduit has none, and every Belt Bottleneck issue names a conduit.
BeltBottleneckIffNearCapacity ==
    pc = "done" =>
        /\ \A k \in DOMAIN out.graph.edges :
            Cardinality(BeltBottleneckIssues(out.graph.edges[k].belt_id))
                = (IF NearCapacity(out.graph.edges[k]) THEN 1 ELSE 0)
        /\ \A k \in DOMAIN out.issues :
            out.issues[k].category = "Belt Bottleneck"
                => out.issues[k].belt_id \in EdgeIds(out.graph)

\* an analysis with a conduit between 95% and 100% of its capacity (reported),
\* and a conduit that carries flow below 95% (not reported)
BeltBottleneckWitness ==
    /\ pc = "done"
    /\ \E k \in DOMAIN out.graph.edges :
        /\ NearCapacity(out.graph.edges[k])
        /\ out.flows.flow[out.graph.edges[k].belt_id] < out.graph.edges[k].max_rate * SCALE
        /\ BeltBottleneckIssues(out.graph.edges[k].belt_id) # {}
    /\ \E k \in DOMAIN out.graph.edges :
        /\ ~NearCapacity(out.graph.edges[k])
        /\ out.flows.flow[out.graph.edges[k].belt_id] > 0

(***************************************************************************)
(* SpecTrace: factories of four machines joined by Mk.1 belts, wide enough *)
(* for a machine whose dominator is not its neighbour.  The first machine  *)
(* is a miner or an overclocked assembler and only feeds the others.       *)
(***************************************************************************)
MaxTraceBelts == 4

Overclocked == Building("production", "Assembler", Recipe(60, 120), 200)

InitTrace ==
    /\ nodes \in {<<first, Constructor, Constructor, Constructor>> :
                    first \in {Miner2, Overclocked}}
    /\ belts = <<>>
    /\ pc = "build"
    /\ setOrd = <<>>
    /\ root = None
    /\ out = <<>>
    /\ conns = <<>>
    /\ loop = NoLoop
    /\ snapshot = NoSnapshot
    /\ tickets = <<>>
    /\ uploads = <<>>

AddTraceBelt(s, d) ==
    /\ pc = "build"
    /\ Len(belts) < MaxTraceBelts
    /\ s # d
    /\ d # 1
    /\ belts' = Append(belts, Belt(Len(belts) + 1, s, d, 60))
    /\ UNCHANGED <<nodes, pc, setOrd, root, out, parser, app>>

UploadTrace ==
    /\ pc = "build"
    /\ Upload(Identity(Len(nodes)))

NextTrace ==
    \/ \E s \in DOMAIN nodes, d \in DOMAIN nodes : AddTraceBelt(s, d)
    \/ UploadTrace

SpecTrace == InitTrace /\ [][NextTrace]_vars

\* the conduit of an analysed factory with this id
Cited(eid) == EdgeOf(out.graph, eid)

\* C17: whenever the starvation tracer answers "Belt Bottleneck (Dominator)"
\* with dominator d while standing on cur, the trace ends  cur, conduit, d
\* where the conduit runs from d to cur and carries at least 99% of its
\* capacity.
BottleneckVerdictCitesConnectingConduit ==
    pc = "done" =>
        \A k \in DOMAIN out.issues :
            out.issues[k].root_cause = "Belt Bottleneck (Dominator)" =>
                LET t == out.issues[k].trace
                    L == Len(t)
                IN  /\ L >= 3
                    /\ t[L] = TraceNode(out.issues[k].dominator_id)
                    /\ t[L - 1].type = "edge"
                    /\ t[L - 2].type = "node"
                    /\ Cited(t[L - 1].id).src = t[L].id
                    /\ Cited(t[L - 1].id).dst = t[L - 2].id
                    /\ AtCapacity(out.graph, out.flows, t[L - 1].id)

\* C18: every trace of the starvation tracer and of the backup tracer
\* starts with the node entry of the machine the issue is about and then
\* alternates: node, edge, node, edge, ..., node.
IsAlternating(t) ==
    \A i \in DOMAIN t : t[i].type = (IF i % 2 = 1 THEN "node" ELSE "edge")

TracesAlternate ==
    pc = "done" =>
        \A k \in DOMAIN out.issues :
            out.issues[k].category \in {"Input Starvation", "Output Backup"} =>
                /\ out.issues[k].trace # <<>>
                /\ out.issues[k].trace[1] = TraceNode(out.issues[k].building_id)
                /\ IsAlternating(out.issues[k].trace)

(***************************************************************************)
(* Conduits left without a direction                                       *)
(***************************************************************************)
Undirected(b) == b.src_building = None \/ b.dst_building = None

\* the conduit ids the traces of an analysis mention
TracedEdges ==
    UNION {{out.issues[k].trace[i].id :
                i \in {j \in DOMAIN out.issues[k].trace : out.issues[k].trace[j].type = "edge"}} :
            k \in DOMAIN out.issues}

\* C15: a conduit that lacks src or dst when the parser is done is no edge
\* of the analysed flow graph: it is in no machine's in_edges or out_edges,
\* it has no flow_rate, and no issue and no trace names it.
UndirectedConduitsStayOut ==
    pc = "done" =>
        \A k \in DOMAIN belts :
            Undirected(belts[k]) =>
                /\ belts[k].id \notin EdgeIds(out.graph)
                /\ belts[k].id \notin DOMAIN out.flows.flow
                /\ \A m \in DOMAIN out.graph.nodes :
                    /\ Occurrences(out.graph.nodes[m].in_edges, belts[k].id) = 0
                    /\ Occurrences(out.graph.nodes[m].out_edges, belts[k].id) = 0
                /\ \A i \in DOMAIN out.issues : out.issues[i].belt_id # belts[k].id
                /\ belts[k].id \notin TracedEdges

\* an analysed save with one conduit that has a src and no dst, beside a
\* directed conduit that carries flow and is named by an issue
UndirectedConduitWitness ==
    /\ pc = "done"
    /\ \E k \in DOMAIN belts :
        belts[k].src_building # None /\ belts[k].dst_building = None
    /\ \E k \in DOMAIN belts :
        /\ ~Undirected(belts[k])
        /\ out.flows.flow[belts[k].id] > 0
        /\ \E i \in DOMAIN out.issues : out.issues[i].belt_id = belts[k].id

(***************************************************************************)
(* The ticket store (feedback_db.py).  An issue is known to it by its      *)
(* issue_hash; a ticket is [issue_hash, status, auto_resolved, updated_at] *)
(* and its id is its position in the table.                                *)
(***************************************************************************)
TicketStatus == {"OPEN", "IN_PROGRESS", "RESOLVED", "WONT_FIX"}

Ticket(issue_hash, now) ==
    [issue_hash |-> issue_hash, status |-> "OPEN", auto_resolved |-> FALSE, updated_at |-> now]

\* the tickets of a hash that SELECT ... WHERE issue_hash = ? finds, any status
AnyTickets(ts, h) == {i \in DOMAIN ts : ts[i].issue_hash = h}

\* ... WHERE issue_hash = ? AND status != 'RESOLVED'
LiveTickets(ts, h) == {i \in DOMAIN ts : ts[i].issue_hash = h /\ ts[i].status # "RESOLVED"}

\* fetchone(): the row with the least id
FirstOf(ids) == CHOOSE i \in ids : \A j \in ids : i <= j

\* one issue of the loop: UPDATE the existing ticket or INSERT an OPEN one
UpsertTicket(ts, h, now, existing) ==
    IF existing # {} THEN [ts EXCEPT ![FirstOf(existing)].updated_at = now]
    ELSE Append(ts, Ticket(h, now))

\* a variant that takes a resolved ticket for an existing one
create_tickets_reusing_resolved(ts, hashes, now) ==
    LET RECURSIVE Each(_, _)
        Each(acc, rest) ==
            IF rest = {} THEN acc
            ELSE Each(UpsertTicket(acc, FirstOf(rest), now, AnyTickets(acc, FirstOf(rest))),
                      rest \ {FirstOf(rest)})
    IN  Each(ts, hashes)

create_tickets_from_issues(ts, hashes, now) ==
    LET RECURSIVE Each(_, _)
        Each(acc, rest) ==
            IF rest = {} THEN acc
            ELSE Each(UpsertTicket(acc, FirstOf(rest), now, LiveTickets(acc, FirstOf(rest))),
                      rest \ {FirstOf(rest)})
    IN  Each(ts, hashes)

auto_resolve_tickets(ts, current_hashes, now) ==
    [i \in DOMAIN ts |->
        IF ts[i].status \in {"OPEN", "IN_PROGRESS"} /\ ts[i].issue_hash \notin current_hashes
        THEN [ts[i] EXCEPT !.status = "RESOLVED", !.auto_resolved = TRUE, !.updated_at = now]
        ELSE ts[i]]

(***************************************************************************)
(* SpecApp: the web application.  Saves are uploaded one after the other,  *)
(* each with the hashes of the issues its analysis finds and the step of   *)
(* the handler that raises, if one does; between uploads a user sets the   *)
(* status of tickets.                                                      *)
(***************************************************************************)
MaxUploads == 3
MaxHash == 2
Hashes == 1..MaxHash

\* the statements of upload()'s try block, in order; "none": nothing raises
Steps == <<"parse_save", "analyze_supply_chain", "build_flow_graph", "detect_districts",
           "compute_manifold_blocks", "auto_resolve_tickets", "create_tickets_from_issues",
           "none">>

StepNo(step) == CHOOSE k \in DOMAIN Steps : Steps[k] = step

\* the globals assigned before the statement numbered k runs
AssignedBefore(k) ==
    (IF k > 2 THEN {"factory", "issues", "graph_stats"} ELSE {})
        \cup (IF k > 3 THEN {"flow"} ELSE {})
        \cup (IF k > 4 THEN {"districts"} ELSE {})
        \cup (IF k > 5 THEN {"blocks"} ELSE {})

InitApp ==
    /\ nodes = <<>>
    /\ belts = <<>>
    /\ pc = "serving"
    /\ setOrd = <<>>
    /\ root = None
    /\ out = <<>>
    /\ conns = <<>>
    /\ loop = NoLoop
    /\ snapshot = NoSnapshot
    /\ tickets = <<>>
    /\ uploads = <<>>

\* POST /upload of a save whose issues hash to `hashes`; `failed_at` raises
upload(hashes, failed_at) ==
    LET now == Len(uploads) + 1
        k == StepNo(failed_at)
    IN  /\ pc = "serving"
        /\ Len(uploads) < MaxUploads
        /\ uploads' = Append(uploads, [hashes |-> hashes, failed_at |-> failed_at])
        /\ snapshot' = [g \in DOMAIN snapshot |->
                            IF g \in AssignedBefore(k) THEN now ELSE snapshot[g]]
        /\ tickets' = IF k <= 6 THEN tickets
                      ELSE IF k = 7 THEN auto_resolve_tickets(tickets, hashes, now)
                      ELSE create_tickets_from_issues(
                               auto_resolve_tickets(tickets, hashes, now), hashes, now)
        /\ UNCHANGED <<nodes, belts, pc, setOrd, root, out, parser>>

\* PUT /api/tickets/<id>: a user sets the status of a ticket
update_ticket(ticket_id, status) ==
    /\ pc = "serving"
    /\ Len(uploads) < MaxUploads
    /\ tickets[ticket_id].status # status
    /\ tickets' = [tickets EXCEPT ![ticket_id].status = status,
                                  ![ticket_id].updated_at = Len(uploads)]
    /\ UNCHANGED <<nodes, belts, pc, setOrd, root, out, parser, snapshot, uploads>>

NextApp ==
    \/ \E hashes \in SUBSET Hashes, k \in DOMAIN Steps : upload(hashes, Steps[k])
    \/ \E i \in DOMAIN tickets, status \in TicketStatus : update_ticket(i, status)

SpecApp == InitApp /\ [][NextApp]_vars

(***************************************************************************)
(* Loads and the ticket store                                              *)
(***************************************************************************)
\* this step is an upload in which nothing raised
Loaded ==
    /\ Len(uploads') = Len(uploads) + 1
    /\ Last(uploads').failed_at = "none"

NewTickets(h) == {i \in DOMAIN tickets' \ DOMAIN tickets : tickets'[i].issue_hash = h}

\* what a load with issue hashes S2 does to the store it finds
LoadSyncsTickets ==
    Loaded =>
        LET S2 == Last(uploads').hashes
            now == Len(uploads')
        IN  /\ Len(tickets') >= Len(tickets)
            /\ \A i \in DOMAIN tickets :
                /\ tickets'[i].issue_hash = tickets[i].issue_hash
                /\ IF tickets[i].status \in {"OPEN", "IN_PROGRESS"}
                      /\ tickets[i].issue_hash \notin S2
                   THEN tickets'[i].status = "RESOLVED" /\ tickets'[i].auto_resolved
                   ELSE /\ tickets'[i].status = tickets[i].status
                        /\ tickets'[i].auto_resolved = tickets[i].auto_resolved
            /\ \A h \in Hashes \ S2 : NewTickets(h) = {}
            /\ \A h \in S2 :
                IF LiveTickets(tickets, h) = {}
                THEN /\ Cardinality(NewTickets(h)) = 1
                     /\ \A i \in NewTickets(h) :
                            tickets'[i].status = "OPEN" /\ ~tickets'[i].auto_resolved
                ELSE /\ NewTickets(h) = {}
                     /\ tickets'[FirstOf(LiveTickets(tickets, h))].updated_at = now

\* C19 (as amended): after a load with issue hashes S2, every ticket that
\* was OPEN or IN_PROGRESS with a hash outside S2 is RESOLVED with
\* auto_resolved set and no other ticket changes status; every hash of S2
\* without a ticket of a status other than RESOLVED has exactly one newly
\* created OPEN ticket; every hash of S2 with such a ticket gets no new
\* ticket and has its first such ticket updated.
LoadsSyncLiveTickets == [][LoadSyncsTickets]_vars

\* two loads in a row, the second on a store where a user had closed the
\* ticket of an issue that is still there: the closed ticket stays closed,
\* the issue has a new OPEN ticket, and the ticket of an issue that went
\* away is auto-resolved
LoadsSyncWitness ==
    /\ Len(uploads) >= 2
    /\ Last(uploads).failed_at = "none"
    /\ uploads[Len(uploads) - 1].failed_at = "none"
    /\ \E i, j, k \in DOMAIN tickets :
        /\ i < j
        /\ tickets[i].issue_hash = tickets[j].issue_hash
        /\ tickets[i].issue_hash \in Last(uploads).hashes \cap uploads[Len(uploads) - 1].hashes
        /\ tickets[i].status = "RESOLVED" /\ ~tickets[i].auto_resolved
        /\ tickets[j].status = "OPEN" /\ tickets[j].updated_at = Len(uploads)
        /\ tickets[k].issue_hash \in uploads[Len(uploads) - 1].hashes \ Last(uploads).hashes
        /\ tickets[k].status = "RESOLVED" /\ tickets[k].auto_resolved

\* the three cases of two loads in a row with issue hashes S1 then S2
ConsecutiveLoadsSync ==
    (Loaded /\ uploads # <<>> /\ Last(uploads).failed_at = "none") =>
        LET S1 == Last(uploads).hashes
            S2 == Last(uploads').hashes
        IN  /\ \A i \in DOMAIN tickets :
                (tickets[i].status \in {"OPEN", "IN_PROGRESS"}
                    /\ tickets[i].issue_hash \in S1 \ S2)
                => tickets'[i].status = "RESOLVED" /\ tickets'[i].auto_resolved
            /\ \A h \in S2 \ S1 :
                /\ Cardinality(NewTickets(h)) = 1
                /\ \A i \in NewTickets(h) : tickets'[i].status = "OPEN"
            /\ \A h \in S1 \cap S2 :
                /\ NewTickets(h) = {}
                /\ \E i \in AnyTickets(tickets, h) :
                    /\ tickets'[i].status = tickets[i].status
                    /\ tickets'[i].status # "RESOLVED"
                    /\ tickets'[i].updated_at = Len(uploads')

\* C19 (as stated): for any two loads in a row with issue hashes S1 then
\* S2, every OPEN or IN_PROGRESS ticket with hash in S1 \ S2 is RESOLVED
\* with auto_resolved set, every hash in S2 \ S1 has exactly one newly
\* created OPEN ticket, and every hash in S1 \cap S2 keeps an existing
\* ticket: updated, not duplicated, not resolved.
ConsecutiveLoadsSyncTickets == [][ConsecutiveLoadsSync]_vars

(***************************************************************************)
(* The snapshot a reader sees                                              *)
(***************************************************************************)
\* this step is an upload in which a statement after parse_save raised
FailedAfterParsing ==
    /\ Len(uploads') = Len(uploads) + 1
    /\ Last(uploads').failed_at \notin {"none", "parse_save"}

FailedUploadKeepsSnapshot == FailedAfterParsing => snapshot' = snapshot

\* C20: an upload that fails at a step after parsing leaves every global of
\* the snapshot (factory, issues, graph statistics, flow graph, districts,
\* manifold blocks) as it was before the upload.
FailedUploadsLeaveSnapshot == [][FailedUploadKeepsSnapshot]_vars

(***************************************************************************)
(* SpecUnmatched: a miner feeding two machines, the first of which is a    *)
(* production machine or generator whose recipe is not in the recipe       *)
(* database, or a storage to compare it with.                              *)
(***************************************************************************)
UnmatchedConstructor == Building("production", "Constructor", Unmatched, 100)
UnmatchedGenerator == Building("generator", "Coal Generator", Unmatched, 100)
Storage == Building("storage", "Storage Container", Unmatched, 100)

InitUnmatched ==
    /\ nodes \in {<<Miner2, second, third>> :
                    second \in {UnmatchedConstructor, UnmatchedGenerator, Storage},
                    third \in {Constructor, Storage}}
    /\ belts = <<>>
    /\ pc = "build"
    /\ setOrd = <<>>
    /\ root = None
    /\ out = <<>>
    /\ conns = <<>>
    /\ loop = NoLoop
    /\ snapshot = NoSnapshot
    /\ tickets = <<>>
    /\ uploads = <<>>

UploadUnmatched ==
    /\ pc = "build"
    /\ Upload(Identity(Len(nodes)))

NextUnmatched ==
    \/ \E s \in DOMAIN nodes, d \in DOMAIN nodes, m \in BeltRates : AddBelt(s, d, m)
    \/ UploadUnmatched

SpecUnmatched == InitUnmatched /\ [][NextUnmatched]_vars

\* the flow an even split of `amount` puts on each outgoing conduit of m
EvenSplit(m, eid, amount) ==
    Min(Div(amount, Len(out.graph.nodes[m].out_edges)), Cited(eid).max_rate * SCALE)

\* C21: after propagation a production machine without a matched recipe
\* has available_output = available_input, and each of its outgoing
\* conduits carries min(available_input / number of outgoing conduits,
\* max_rate), as a storage does.
UnmatchedProductionPassesThrough ==
    pc = "done" =>
        \A m \in DOMAIN out.graph.nodes :
            (out.graph.nodes[m].category = "production" /\ ~out.graph.nodes[m].recipe_data)
            => /\ out.flows.aout[m] = out.flows.ain[m]
               /\ \A k \in DOMAIN out.graph.nodes[m].out_edges :
                    out.flows.flow[out.graph.nodes[m].out_edges[k]]
                        = EvenSplit(m, out.graph.nodes[m].out_edges[k], out.flows.ain[m])

(***************************************************************************)
(* Severity of Belt Bottleneck issues                                      *)
(***************************************************************************)
\* C27: every Belt Bottleneck issue of an analysis has severity "warning",
\* none has severity "error".
BeltBottleneckIsWarning ==
    pc = "done" =>
        \A k \in DOMAIN out.issues :
            out.issues[k].category = "Belt Bottleneck" => out.issues[k].severity = "warning"

\* an analysis that reports a belt which is completely full
BeltBottleneckFullWitness ==
    /\ pc = "done"
    /\ \E k \in DOMAIN out.issues :
        /\ out.issues[k].category = "Belt Bottleneck"
        /\ out.flows.flow[out.issues[k].belt_id] = Cited(out.issues[k].belt_id).max_rate * SCALE

(***************************************************************************)
(* Outgoing flow against available output                                  *)
(***************************************************************************)
\* the sum of flow_rate over the outgoing conduits of machine m
Outflow(m) ==
    SumSeq([k \in DOMAIN out.graph.nodes[m].out_edges |->
                out.flows.flow[out.graph.nodes[m].out_edges[k]]])

SendsWholeInput(m) == out.graph.nodes[m].building_name \in MergerNames \cup PumpNames

\* C29: after propagate_flow the flow rates of the outgoing conduits of a
\* machine that is no merger and no pipeline pump sum to at most its
\* available_output, in singleton SCCs and in cycles alike (up to the
\* rounding of each conduit's share to 1/SCALE).
OutflowWithinAvailableOutput ==
    pc = "done" =>
        \A m \in DOMAIN out.graph.nodes :
            ~SendsWholeInput(m)
            => Outflow(m) <= out.flows.aout[m] + Len(out.graph.nodes[m].out_edges)

\* an analysis with a splitter in a cycle that passes flow on
OutflowWitness ==
    /\ pc = "done"
    /\ \E m \in DOMAIN out.graph.nodes :
        /\ ~SendsWholeInput(m)
        /\ out.graph.nodes[m].category = "logistics"
        /\ ~AloneInScc(m)
        /\ Outflow(m) > 0

(***************************************************************************)
(* The dominator maps as trees                                             *)
(***************************************************************************)
\* following the links of idom from k reaches `top` without meeting a node twice
RECURSIVE ClimbsTo(_, _, _, _)
ClimbsTo(idom, top, k, seen) ==
    IF k = top THEN TRUE
    ELSE IF k \in seen \/ k \notin DOMAIN idom THEN FALSE
    ELSE ClimbsTo(idom, top, idom[k], seen \cup {k})

IsTreeUnder(idom, top) == \A k \in DOMAIN idom : ClimbsTo(idom, top, k, {})

\* C28: in the maps of build_dominator_tree and build_reverse_dominator_tree
\* the idom links lead from every key to the synthetic root without
\* visiting a machine twice; no issue gets a "Feedback Loop" verdict, and
\* no trace is longer than the 30 steps of a tracer allow.
DominatorLinksReachRoot ==
    pc = "done" =>
        /\ IsTreeUnder(build_dominator_tree(out.graph.nodes, out.graph.edges), VIRTUAL_SOURCE)
        /\ IsTreeUnder(build_reverse_dominator_tree(out.graph.nodes, out.graph.edges),
                       VIRTUAL_SINK)
        /\ \A k \in DOMAIN out.issues :
            /\ out.issues[k].root_cause
                 \notin {"Feedback Loop (Dominator)", "Feedback Loop (Downstream)"}
            /\ Len(out.issues[k].trace) <= 2 * TRACE_DEPTH + 1

\* an analysis in which a tracer has walked up from a starved machine that
\* lies on a cycle of conduits
DominatorLinksWitness ==
    /\ pc = "done"
    /\ \E k \in DOMAIN out.issues :
        /\ out.issues[k].category = "Input Starvation"
        /\ ~AloneInScc(out.issues[k].building_id)
        /\ Len(out.issues[k].trace) >= 5

(***************************************************************************)
(* district_analyzer.py.  Its flow nodes are written with the names of     *)
(* their recipe and of the items they make and take:                       *)
(*   [category, building_name, recipe_name, recipe_data, is_producing,     *)
(*    expected_inputs, expected_outputs]                                   *)
(* where recipe_name is "" when there is none and expected_inputs and      *)
(* expected_outputs map item names to rates in 1/SCALE items per minute.   *)
(* An edge is [belt_id, src, dst, flow_rate, max_rate].                    *)
(***************************************************************************)
\* the values of a list in order of first appearance
RECURSIVE Distinct(_)
Distinct(list) ==
    IF list = <<>> THEN <<>>
    ELSE LET front == Distinct(Front(list))
         IN  IF Last(list) \in Range(front) THEN front ELSE Append(front, Last(list))

\* a variant that leaves machines without any conduit out of their community
CommunityMembersConnected(ns, es, membership, c) ==
    SelectSeq(NodeIds(Len(ns)),
              LAMBDA i : membership[i] = c
                         /\ \E k \in DOMAIN es : es[k].src = i \/ es[k].dst = i)

\* the machines the community detection put in community c, in node order
CommunityMembers(ns, es, membership, c) ==
    SelectSeq(NodeIds(Len(ns)), LAMBDA i : membership[i] = c)

\* _build_district: the District of the node ids nids
_build_district(did, nids, ns) ==
    [id |-> did, node_ids |-> nids, total_machines |-> Len(nids),
     producing_count |-> Cardinality({k \in DOMAIN nids : ns[nids[k]].is_producing})]

\* districts.sort(key=lambda d: d.total_machines, reverse=True)
LargestFirst(districts) ==
    SortSeq(districts, LAMBDA a, b : a.total_machines > b.total_machines)

\* membership is partition.membership of leidenalg.find_partition: the
\* community of every vertex of the graph, in node order
_leiden_communities(ns, es, membership) ==
    LET ids == Distinct(membership)
    IN  [districts |-> LargestFirst([k \in DOMAIN ids |->
                          _build_district(ids[k], CommunityMembers(ns, es, membership, ids[k]), ns)]),
         node_to_district |-> [i \in DOMAIN ns |-> membership[i]]]

\* the communities of networkx's greedy_modularity_communities are the
\* classes of membership, the largest first; a district's id is its position
_fallback_communities(ns, es, membership) ==
    LET ids == Distinct(membership)
        communities ==
            SortSeq([k \in DOMAIN ids |-> CommunityMembers(ns, es, membership, ids[k])],
                    LAMBDA a, b : Len(a) > Len(b))
    IN  [districts |-> LargestFirst([k \in DOMAIN communities |->
                          _build_district(k - 1, communities[k], ns)]),
         node_to_district |->
            [i \in UNION {Range(communities[k]) : k \in DOMAIN communities} |->
                (CHOOSE k \in DOMAIN communities : i \in Range(communities[k])) - 1]]

detect_districts(ns, es, membership, leiden) ==
    IF leiden THEN _leiden_communities(ns, es, membership)
    ELSE _fallback_communities(ns, es, membership)

\* predecessors[nid] and successors[nid]
Predecessors(ns, es, nid) ==
    {es[k].src : k \in {j \in DOMAIN es : es[j].dst = nid /\ es[j].src \in DOMAIN ns}}
Successors(ns, es, nid) ==
    {es[k].dst : k \in {j \in DOMAIN es : es[j].src = nid /\ es[j].dst \in DOMAIN ns}}

\* a variant of the structural hash that leaves the successors out
StructuralHashOfSources(ns, es, nid) ==
    <<ns[nid].recipe_name, Ascending(Predecessors(ns, es, nid))>>

\* sha256(f"{recipe_name}|{preds}|{succs}")[:16]: the text names the recipe
\* and both sorted tuples, and the hash stands for the text
StructuralHash(ns, es, nid) ==
    <<ns[nid].recipe_name, Ascending(Predecessors(ns, es, nid)),
      Ascending(Successors(ns, es, nid))>>

compute_manifold_blocks(ns, es) ==
    LET hashed == SelectSeq(NodeIds(Len(ns)),
                            LAMBDA i : ns[i].category = "production" /\ ns[i].recipe_name # "")
        hashes == Distinct([k \in DOMAIN hashed |-> StructuralHash(ns, es, hashed[k])])
        Group(h) == SelectSeq(hashed, LAMBDA i : StructuralHash(ns, es, i) = h)
        kept == SelectSeq(hashes, LAMBDA h : Len(Group(h)) >= 2)
        Block(h, nids) ==
            [id |-> h, recipe_name |-> ns[nids[1]].recipe_name,
             building_name |-> ns[nids[1]].building_name,
             node_ids |-> nids, count |-> Len(nids),
             input_sources |-> Predecessors(ns, es, nids[1]),
             output_targets |-> Successors(ns, es, nids[1])]
    IN  [blocks |-> SortSeq([k \in DOMAIN kept |-> Block(kept[k], Group(kept[k]))],
                            LAMBDA a, b : a.count > b.count),
         node_to_block |->
            [i \in {j \in Range(hashed) : Len(Group(StructuralHash(ns, es, j))) >= 2} |->
                StructuralHash(ns, es, i)]]

(***************************************************************************)
(* compute_ledger: the balance sheet of a set of machines.  expected_inputs*)
(* and expected_outputs are sets of <<item, rate>> with one pair per item. *)
(***************************************************************************)
ItemsOf(rates) == {p[1] : p \in rates}
RateOf(rates, item) == (CHOOSE p \in rates : p[1] = item)[2]

\* round(x, 1) of a rate x >= 0 in 1/SCALE: to the nearest tenth, a tie to the even tenth
Round1(x) ==
    LET tenths == x \div (SCALE \div 10)
        rest == x % (SCALE \div 10)
        half == SCALE \div 20
    IN  (SCALE \div 10) *
            (IF rest > half \/ (rest = half /\ tenths % 2 = 1) THEN tenths + 1 ELSE tenths)

\* the sum of the rates of an item over the machines ids; rates[nid] is what nid adds
RECURSIVE SumRates(_, _, _)
SumRates(rates, ids, item) ==
    IF ids = {} THEN 0
    ELSE LET nid == CHOOSE x \in ids : TRUE
         IN  (IF item \in ItemsOf(rates[nid]) THEN RateOf(rates[nid], item) ELSE 0)
                + SumRates(rates, ids \ {nid}, item)

\* what a machine adds to item_produced and to item_consumed
ProducedBy(node) ==
    IF (node.category \in {"production", "generator"} /\ node.recipe_data)
       \/ node.category = "miner"
    THEN node.expected_outputs ELSE {}
ConsumedBy(node) ==
    IF node.category \in {"production", "generator"} /\ node.recipe_data
    THEN node.expected_inputs ELSE {}

\* a variant of the status rule that looks at net before it looks at consumed
LedgerStatusByNet(produced, consumed, net) ==
    IF produced = 0 /\ consumed = 0 THEN "unused"
    ELSE IF 2 * net > SCALE THEN "surplus"
    ELSE IF 2 * net < 0 - SCALE THEN "deficit"
    ELSE IF consumed = 0 THEN "surplus"
    ELSE IF produced = 0 THEN "imported"
    ELSE "balanced"

\* the if/elif chain of compute_ledger; 0.5 is SCALE / 2
LedgerStatus(produced, consumed, net) ==
    IF produced = 0 /\ consumed = 0 THEN "unused"
    ELSE IF consumed = 0 THEN "surplus"
    ELSE IF produced = 0 THEN "imported"
    ELSE IF 2 * net > SCALE THEN "surplus"
    ELSE IF 2 * net < 0 - SCALE THEN "deficit"
    ELSE "balanced"

\* sorted(all_items): the item names in alphabetical order
ITEM_NAMES == <<"ingot", "ore", "plate">>

\* status_order
StatusRank(status) ==
    CASE status = "deficit" -> 0 [] status = "imported" -> 1 [] status = "surplus" -> 2
      [] status = "balanced" -> 3 [] status = "unused" -> 4 [] OTHER -> 5

compute_ledger(district_node_ids, ns, es) ==
    LET nid_set == district_node_ids \cap DOMAIN ns
        all_items == UNION {ItemsOf(ProducedBy(ns[i])) \cup ItemsOf(ConsumedBy(ns[i])) : i \in nid_set}
        boundary_in == {k \in DOMAIN es : es[k].src \notin district_node_ids
                                          /\ es[k].dst \in district_node_ids}
        boundary_out == {k \in DOMAIN es : es[k].src \in district_node_ids
                                           /\ es[k].dst \notin district_node_ids}
        \* the items a boundary edge is booked on: those of the machine outside
        src_items == [k \in DOMAIN es |->
                        IF es[k].src \in DOMAIN ns THEN ItemsOf(ns[es[k].src].expected_outputs) ELSE {}]
        dst_items == [k \in DOMAIN es |->
                        IF es[k].dst \in DOMAIN ns THEN ItemsOf(ns[es[k].dst].expected_inputs) ELSE {}]
        RECURSIVE Booked(_, _, _)
        Booked(ks, item, far) ==
            IF ks = {} THEN 0
            ELSE LET k == CHOOSE x \in ks : TRUE
                 IN  (IF item \in far[k]
                      THEN Div(es[k].flow_rate, Max(Cardinality(far[k]), 1))
                      ELSE 0) + Booked(ks \ {k}, item, far)
        Entry(item, produced, consumed) ==
            [item |-> item, produced |-> produced, consumed |-> consumed,
             net |-> produced - consumed,
             ext_in |-> Round1(Booked(boundary_in, item, src_items)),
             ext_out |-> Round1(Booked(boundary_out, item, dst_items)),
             status |-> LedgerStatus(produced, consumed, produced - consumed)]
        produced_by == [i \in DOMAIN ns |-> ProducedBy(ns[i])]
        consumed_by == [i \in DOMAIN ns |-> ConsumedBy(ns[i])]
        listed == SelectSeq(ITEM_NAMES, LAMBDA item : item \in all_items)
        items == [k \in DOMAIN listed |->
                    Entry(listed[k],
                          Round1(SumRates(produced_by, nid_set, listed[k])),
                          Round1(SumRates(consumed_by, nid_set, listed[k])))]
    IN  [items |-> SortSeq(items,
                    LAMBDA a, b : \/ StatusRank(a.status) < StatusRank(b.status)
                                  \/ /\ StatusRank(a.status) = StatusRank(b.status)
                                     /\ Abs(a.net) > Abs(b.net)),
         totals |-> [machines |-> Cardinality({i \in nid_set :
                                     \/ ns[i].category = "miner"
                                     \/ ns[i].category \in {"production", "generator"}
                                        /\ ns[i].recipe_data}),
                     boundary_in_count |-> Cardinality(boundary_in),
                     boundary_out_count |-> Cardinality(boundary_out)]]

(***************************************************************************)
(* SpecDistrict: a flow graph of three machines and up to two conduits is  *)
(* handed to detect_districts, to compute_manifold_blocks or, with a       *)
(* selection of machines, to compute_ledger.                               *)
(***************************************************************************)
MaxDistrictEdges == 2

FlowNodeOf(category, building_name, recipe_name, recipe_data, inputs, outputs) ==
    [category |-> category, building_name |-> building_name, recipe_name |-> recipe_name,
     recipe_data |-> recipe_data, is_producing |-> TRUE,
     expected_inputs |-> inputs, expected_outputs |-> outputs]

Miner1 == FlowNodeOf("miner", "Miner Mk.1", "", FALSE, {}, {<<"ore", 60 * SCALE>>})
Smelter == FlowNodeOf("production", "Smelter", "Iron Ingot", TRUE,
                      {<<"ore", 30 * SCALE>>}, {<<"ingot", 30 * SCALE>>})
Plater == FlowNodeOf("production", "Constructor", "Iron Plate", TRUE,
                     {<<"ingot", 30 * SCALE>>}, {<<"plate", 20 * SCALE>>})
\* the plate recipe at 0.1 % clock
Trickle == FlowNodeOf("production", "Constructor", "Iron Plate", TRUE,
                      {<<"ingot", 30>>}, {<<"plate", 20>>})
\* the ingot recipe at 101.8 % clock
Tuned == FlowNodeOf("production", "Smelter", "Iron Ingot", TRUE,
                    {<<"ore", 30540>>}, {<<"ingot", 30540>>})
\* a recipe the recipe database does not know
Unlisted == FlowNodeOf("production", "Constructor", "Unknown", FALSE, {}, {})
Idle == FlowNodeOf("production", "Constructor", "", FALSE, {}, {})
Box == FlowNodeOf("storage", "Storage Container", "", FALSE, {}, {})

DistrictSlots == << {Miner1, Smelter, Tuned, Trickle, Idle, Box},
                    {Smelter, Plater, Unlisted},
                    {Smelter, Plater, Unlisted} >>

InitDistrict ==
    /\ nodes \in {<<a, b, c>> : a \in DistrictSlots[1], b \in DistrictSlots[2],
                                c \in DistrictSlots[3]}
    /\ belts = <<>>
    /\ pc = "graph"
    /\ setOrd = <<>>
    /\ root = None
    /\ out = <<>>
    /\ conns = <<>>
    /\ loop = NoLoop
    /\ snapshot = NoSnapshot
    /\ tickets = <<>>
    /\ uploads = <<>>

AddFlowEdge(s, d) ==
    /\ pc = "graph"
    /\ Len(belts) < MaxDistrictEdges
    /\ belts' = Append(belts, [belt_id |-> Len(belts) + 1, src |-> s, dst |-> d,
                               flow_rate |-> 30 * SCALE, max_rate |-> 60])
    /\ UNCHANGED <<nodes, pc, setOrd, root, out, parser, app>>

\* detect_districts with the communities the library answers
DetectDistricts(membership, leiden) ==
    /\ pc = "graph"
    /\ out' = detect_districts(nodes, belts, membership, leiden)
    /\ pc' = "districts"
    /\ UNCHANGED <<nodes, belts, setOrd, root, parser, app>>

ComputeBlocks ==
    /\ pc = "graph"
    /\ out' = compute_manifold_blocks(nodes, belts)
    /\ pc' = "blocks"
    /\ UNCHANGED <<nodes, belts, setOrd, root, parser, app>>

\* the ledger of a lasso around the machines ids
ComputeLedger(ids) ==
    /\ pc = "graph"
    /\ out' = compute_ledger(ids, nodes, belts)
    /\ pc' = "ledger"
    /\ UNCHANGED <<nodes, belts, setOrd, root, parser, app>>

NextDistrict ==
    \/ \E s \in DOMAIN nodes, d \in DOMAIN nodes : AddFlowEdge(s, d)
    \/ \E membership \in [DOMAIN nodes -> {0, 1}], leiden \in BOOLEAN :
            DetectDistricts(membership, leiden)
    \/ ComputeBlocks
    \/ \E ids \in SUBSET DOMAIN nodes : ComputeLedger(ids)

SpecDistrict == InitDistrict /\ [][NextDistrict]_vars

\* C22: the districts detect_districts returns have node_ids lists without
\* repetition that are pairwise disjoint and together hold exactly the
\* machines of the flow graph, machines without conduits included, and
\* node_to_district names for every machine the district that contains it
DistrictsPartitionMachines ==
    pc = "districts" =>
        LET ds == out.districts
            ntd == out.node_to_district
        IN  /\ \A k \in DOMAIN ds :
                    \A a, b \in DOMAIN ds[k].node_ids :
                        a # b => ds[k].node_ids[a] # ds[k].node_ids[b]
            /\ \A k1, k2 \in DOMAIN ds :
                    k1 # k2 => Range(ds[k1].node_ids) \cap Range(ds[k2].node_ids) = {}
            /\ UNION {Range(ds[k].node_ids) : k \in DOMAIN ds} = DOMAIN nodes
            /\ DOMAIN ntd = DOMAIN nodes
            /\ \A i \in DOMAIN nodes :
                    \A k \in DOMAIN ds : (i \in Range(ds[k].node_ids)) <=> (ds[k].id = ntd[i])

\* two districts were found in a graph with a conduit and a machine that no
\* conduit touches
DistrictsWitness ==
    /\ pc = "districts"
    /\ Len(out.districts) = 2
    /\ belts # <<>>
    /\ \E i \in DOMAIN nodes : \A k \in DOMAIN belts : belts[k].src # i /\ belts[k].dst # i

\* C23: every block of compute_manifold_blocks has at least two members, all
\* of them production machines, and any two members have the same recipe
\* name, the same predecessor machines and the same successor machines
BlocksAreStructuralTwins ==
    pc = "blocks" =>
        \A k \in DOMAIN out.blocks :
            LET nids == out.blocks[k].node_ids
            IN  /\ Cardinality(Range(nids)) >= 2
                /\ \A i \in Range(nids) : nodes[i].category = "production"
                /\ \A i, j \in Range(nids) :
                        /\ nodes[i].recipe_name = nodes[j].recipe_name
                        /\ Predecessors(nodes, belts, i) = Predecessors(nodes, belts, j)
                        /\ Successors(nodes, belts, i) = Successors(nodes, belts, j)

\* a block of two machines fed by the same machine, while a third machine
\* with their recipe stays out of the block
BlocksWitness ==
    /\ pc = "blocks"
    /\ \E k \in DOMAIN out.blocks :
            LET nids == out.blocks[k].node_ids
            IN  /\ Predecessors(nodes, belts, nids[1]) # {}
                /\ \E i \in DOMAIN nodes \ Range(nids) :
                        /\ nodes[i].category = "production"
                        /\ nodes[i].recipe_name = out.blocks[k].recipe_name

\* the rates of an item summed over the machines ids, before any rounding
SummedProduced(ids, item) ==
    SumRates([i \in DOMAIN nodes |-> ProducedBy(nodes[i])], ids \cap DOMAIN nodes, item)
SummedConsumed(ids, item) ==
    SumRates([i \in DOMAIN nodes |-> ConsumedBy(nodes[i])], ids \cap DOMAIN nodes, item)

\* the status the precedence gives to an item with these three amounts
Decided(status, produced, consumed, net) ==
    /\ status \in {"unused", "surplus", "imported", "deficit", "balanced"}
    /\ status = "unused" <=> (produced = 0 /\ consumed = 0)
    /\ status = "surplus" <=> \/ produced # 0 /\ consumed = 0
                              \/ produced # 0 /\ consumed # 0 /\ 2 * net > SCALE
    /\ status = "imported" <=> (produced = 0 /\ consumed # 0)
    /\ status = "deficit" <=> (produced # 0 /\ consumed # 0 /\ 2 * net < 0 - SCALE)

LedgerFollowsRoundedRates ==
    \A ids \in SUBSET DOMAIN nodes :
        ComputeLedger(ids) =>
            LET rows == out'.items
            IN  /\ \A a, b \in DOMAIN rows : a # b => rows[a].item # rows[b].item
                /\ \A k \in DOMAIN rows :
                    /\ rows[k].produced = Round1(SummedProduced(ids, rows[k].item))
                    /\ rows[k].consumed = Round1(SummedConsumed(ids, rows[k].item))
                    /\ rows[k].net = rows[k].produced - rows[k].consumed
                    /\ Decided(rows[k].status, rows[k].produced, rows[k].consumed, rows[k].net)

\* C25: compute_ledger lists every item once with one status, decided in the
\* precedence unused (produced = 0 and consumed = 0), surplus (consumed = 0),
\* imported (produced = 0), surplus (net > 0.5), deficit (net < -0.5),
\* balanced, where produced and consumed are the summed rates rounded to one
\* decimal and net = produced - consumed
StatusFollowsRoundedRates == [][LedgerFollowsRoundedRates]_vars

\* a ledger row that is balanced with net exactly 0.5 after rounding
RoundedLedgerWitness ==
    /\ pc = "ledger"
    /\ \E k \in DOMAIN out.items :
            /\ out.items[k].status = "balanced"
            /\ 2 * out.items[k].net = SCALE

LedgerFollowsSummedRates ==
    \A ids \in SUBSET DOMAIN nodes :
        ComputeLedger(ids) =>
            \A k \in DOMAIN out'.items :
                LET produced == SummedProduced(ids, out'.items[k].item)
                    consumed == SummedConsumed(ids, out'.items[k].item)
                IN  Decided(out'.items[k].status, produced, consumed, produced - consumed)

\* C25 read on the summed rates themselves: the status of every listed item
\* follows the precedence with net = produced - consumed
StatusFollowsSummedRates == [][LedgerFollowsSummedRates]_vars

(***************************************************************************)
(* SpecPump: a refinery, a pipeline pump and a blender joined by two       *)
(* pipes.  The save lists each of the four port connections from either    *)
(* side or from both, in any order; parse_save resolves the directions.    *)
(***************************************************************************)
MaxLinkConns == 6

Refinery == Building("production", "Refinery", Recipe(60, 60), 100)
Pump == Building("logistics", "Pipeline Pump", Unmatched, 100)
Blender == Building("production", "Blender", Recipe(60, 60), 100)

\* refinery - pipe 1 - pump - pipe 2 - blender
PumpLinks ==
    << <<Component("bldg", 1, "PipeOutputFactory"), Component("belt", 1, "PipelineConnection0")>>,
       <<Component("belt", 1, "PipelineConnection1"), Component("bldg", 2, "Connection0")>>,
       <<Component("bldg", 2, "Connection1"), Component("belt", 2, "PipelineConnection0")>>,
       <<Component("belt", 2, "PipelineConnection1"), Component("bldg", 3, "PipeInputFactory")>> >>

InitPump ==
    /\ nodes = <<Refinery, Pump, Blender>>
    /\ belts = <<Conduit(1, TRUE), Conduit(2, TRUE)>>
    /\ pc = "wire"
    /\ setOrd = <<>>
    /\ root = None
    /\ out = <<>>
    /\ conns = <<>>
    /\ loop = NoLoop
    /\ snapshot = NoSnapshot
    /\ tickets = <<>>
    /\ uploads = <<>>

\* the next entry of factory.connections: link k, seen from either side
WirePump(k, flipped) ==
    LET entry == IF flipped THEN <<PumpLinks[k][2], PumpLinks[k][1]>> ELSE PumpLinks[k]
    IN  /\ pc = "wire"
        /\ Len(conns) < MaxLinkConns
        /\ entry \notin Range(conns)
        /\ conns' = Append(conns, entry)
        /\ UNCHANGED <<nodes, belts, pc, setOrd, root, out, loop, app>>

NextPump ==
    \/ \E k \in DOMAIN PumpLinks, flipped \in BOOLEAN : WirePump(k, flipped)
    \/ ResolveDirections
    \/ PipeSweep
    \/ BeltSweep

SpecPump == InitPump /\ [][NextPump]_vars

\* every one of the four port connections is listed, from one side at least
PumpWired ==
    \A k \in DOMAIN PumpLinks :
        PumpLinks[k] \in Range(conns) \/ <<PumpLinks[k][2], PumpLinks[k][1]>> \in Range(conns)

\* C24: for the wiring refinery PipeOutputFactory - pipe 1 - pump Connection
\* ports - pipe 2 - blender PipeInputFactory, direction resolution ends with
\* pipe 1 running from the refinery to the pump and pipe 2 from the pump to
\* the blender, in whatever order the port connections are processed
PumpPipesOriented ==
    (pc = "parsed" /\ PumpWired) =>
        /\ belts[1].src_building = 1 /\ belts[1].dst_building = 2
        /\ belts[2].src_building = 2 /\ belts[2].dst_building = 3

\* the pump's two connections were processed before those of the refinery
\* and the blender, so that Pass 3 could not infer the pump ends
PumpWitness ==
    /\ pc = "parsed"
    /\ PumpWired
    /\ Len(conns) >= 4
    /\ \A i \in 1..2 : \E k \in 2..3 : conns[i] \in {PumpLinks[k], <<PumpLinks[k][2], PumpLinks[k][1]>>}
    /\ belts[2].src_building = 2

(***************************************************************************)
(* SpecBelts: a run of three belts from a miner to a constructor.  The     *)
(* save lists each of the four connections from either side or from both,  *)
(* in any order; parse_save resolves the directions.                       *)
(***************************************************************************)
BeltLinks ==
    << <<Component("bldg", 1, "Output0"), Component("belt", 1, "ConveyorAny0")>>,
       <<Component("belt", 1, "ConveyorAny1"), Component("belt", 2, "ConveyorAny0")>>,
       <<Component("belt", 2, "ConveyorAny1"), Component("belt", 3, "ConveyorAny0")>>,
       <<Component("belt", 3, "ConveyorAny1"), Component("bldg", 2, "Input0")>> >>

InitBelts ==
    /\ nodes = <<Miner2, Constructor>>
    /\ belts = <<Conduit(1, FALSE), Conduit(2, FALSE), Conduit(3, FALSE)>>
    /\ pc = "wire"
    /\ setOrd = <<>>
    /\ root = None
    /\ out = <<>>
    /\ conns = <<>>
    /\ loop = NoLoop
    /\ snapshot = NoSnapshot
    /\ tickets = <<>>
    /\ uploads = <<>>

\* the next entry of factory.connections: link k, seen from either side
WireBelts(k, flipped) ==
    LET entry == IF flipped THEN <<BeltLinks[k][2], BeltLinks[k][1]>> ELSE BeltLinks[k]
    IN  /\ pc = "wire"
        /\ Len(conns) < MaxLinkConns
        /\ entry \notin Range(conns)
        /\ conns' = Append(conns, entry)
        /\ UNCHANGED <<nodes, belts, pc, setOrd, root, out, loop, app>>

NextBelts ==
    \/ \E k \in DOMAIN BeltLinks, flipped \in BOOLEAN : WireBelts(k, flipped)
    \/ ResolveDirections
    \/ PipeSweep
    \/ BeltSweep

SpecBelts == InitBelts /\ [][NextBelts]_vars

\* the pairs <<A, B>> of belts with a connection from A's belt-out end to B's
\* belt-in end, listed from either side
ForwardPairs ==
    {<<conns[i][1].id, conns[i][2].id>> :
        i \in {j \in DOMAIN conns : /\ conns[j][1].kind = "belt" /\ conns[j][2].kind = "belt"
                                    /\ Dir(conns[j][1]) = "belt_out"
                                    /\ Dir(conns[j][2]) = "belt_in"}}
    \cup {<<conns[i][2].id, conns[i][1].id>> :
        i \in {j \in DOMAIN conns : /\ conns[j][1].kind = "belt" /\ conns[j][2].kind = "belt"
                                    /\ Dir(conns[j][1]) = "belt_in"
                                    /\ Dir(conns[j][2]) = "belt_out"}}

\* every one of the four connections of the run is listed
BeltsWired ==
    \A k \in DOMAIN BeltLinks :
        BeltLinks[k] \in Range(conns) \/ <<BeltLinks[k][2], BeltLinks[k][1]>> \in Range(conns)

\* C26: when the belt-chain loop has stopped without hitting its cap, every
\* belt-out to belt-in connection A -> B has B.src set if A.src is set and
\* A.dst set if B.dst is set; and in a chain whose first belt is attached to
\* the source machine and whose last belt to the destination machine every
\* belt has that src and that dst and is registered in the source's outgoing
\* and the destination's incoming list
ChainsInheritBothEnds ==
    (pc = "parsed" /\ ~(loop.belt_changed /\ loop.belt_iters >= BELT_MAX_ITERS)) =>
        /\ \A ab \in ForwardPairs :
                /\ belts[ab[1]].src_building # None => belts[ab[2]].src_building # None
                /\ belts[ab[2]].dst_building # None => belts[ab[1]].dst_building # None
        /\ BeltsWired =>
                \A k \in DOMAIN belts :
                    /\ belts[k].src_building = 1 /\ belts[k].dst_building = 2
                    /\ k \in loop.output_belts[1]
                    /\ k \in loop.input_belts[2]

\* the whole run was resolved although the belt-to-belt connections were
\* listed before those of the machines, and the loop needed several sweeps
ChainsWitness ==
    /\ pc = "parsed"
    /\ BeltsWired
    /\ conns[1][1].kind = "belt" /\ conns[1][2].kind = "belt"
    /\ loop.belt_iters >= 2
    /\ ~loop.belt_changed
    /\ 2 \in loop.output_belts[1] \cap loop.input_belts[2]

(***************************************************************************)
(* SpecLoads: saves are loaded one after the other into an empty ticket    *)
(* store; the issue list of a save may name the same hash several times.   *)
(***************************************************************************)
MaxLoads == 3
MaxIssues == 3

\* the issue lists of a save, every issue given by its hash
IssueLists == UNION {[1..n -> Hashes] : n \in 0..MaxIssues}

\* a variant that looks for the existing ticket in the table as it was
\* before the first issue was handled
create_tickets_from_stale_table(ts, issues, now) ==
    LET RECURSIVE Each(_, _)
        Each(acc, k) ==
            IF k > Len(issues) THEN acc
            ELSE Each(UpsertTicket(acc, issues[k], now, LiveTickets(ts, issues[k])), k + 1)
    IN  Each(ts, 1)

\* create_tickets_from_issues on the list `issues': every SELECT sees the
\* rows the earlier issues of the same call inserted
create_tickets_from_issue_list(ts, issues, now) ==
    LET RECURSIVE Each(_, _)
        Each(acc, k) ==
            IF k > Len(issues) THEN acc
            ELSE Each(UpsertTicket(acc, issues[k], now, LiveTickets(acc, issues[k])), k + 1)
    IN  Each(ts, 1)

InitLoads ==
    /\ nodes = <<>>
    /\ belts = <<>>
    /\ pc = "serving"
    /\ setOrd = <<>>
    /\ root = None
    /\ out = <<>>
    /\ conns = <<>>
    /\ loop = NoLoop
    /\ snapshot = NoSnapshot
    /\ tickets = <<>>
    /\ uploads = <<>>

\* one load: auto_resolve_tickets, then create_tickets_from_issues
load(issues) ==
    LET now == Len(uploads) + 1
    IN  /\ pc = "serving"
        /\ Len(uploads) < MaxLoads
        /\ uploads' = Append(uploads, [hashes |-> Range(issues), failed_at |-> "none",
                                       issues |-> issues])
        /\ tickets' = create_tickets_from_issue_list(
                          auto_resolve_tickets(tickets, Range(issues), now), issues, now)
        /\ UNCHANGED <<nodes, belts, pc, setOrd, root, out, parser, snapshot>>

NextLoads == \E issues \in IssueLists : load(issues)

SpecLoads == InitLoads /\ [][NextLoads]_vars

\* C30: after any sequence of loads from an empty store, with issue lists
\* that may name a hash several times, there is at most one ticket with a
\* status other than RESOLVED per issue hash, and every OPEN or IN_PROGRESS
\* ticket has a hash of the most recent issue list
OneLiveTicketPerHash ==
    /\ \A h \in Hashes : Cardinality(LiveTickets(tickets, h)) <= 1
    /\ uploads # <<>> =>
            \A i \in DOMAIN tickets :
                tickets[i].status \in {"OPEN", "IN_PROGRESS"} =>
                    tickets[i].issue_hash \in Range(Last(uploads).issues)

\* a list that names a hash twice was loaded after that hash had been
\* resolved once: its one live ticket stands beside a resolved one
OneLiveTicketWitness ==
    /\ Len(uploads) = MaxLoads
    /\ \E h \in Hashes :
            /\ Cardinality({k \in DOMAIN Last(uploads).issues : Last(uploads).issues[k] = h}) >= 2
            /\ Cardinality(LiveTickets(tickets, h)) = 1
            /\ Cardinality(AnyTickets(tickets, h)) >= 2

====
